---- MODULE Spec2Model ----
(***************************************************************************)
(* hlsfy: the job queue (src/core/queue.ts, isolated-process variant), the *)
(* idle-shutdown watchdog (src/core/check-process.ts), the two routes and  *)
(* the converter that runs one job in an isolated process                  *)
(* (src/core/converter.ts).                                                *)
(*                                                                         *)
(* The parent is a single-threaded node process: every handler (an HTTP    *)
(* request, a child's exit event with the promise continuations it         *)
(* triggers, a cron tick up to its first await) runs to completion, so     *)
(* each is one action.  The sqlite table and the temp directory are on     *)
(* disk and survive the process; the pool of fastq does not.               *)
(*                                                                         *)
(* Spec is the queue with its watchdog (SpecFair: with the cron schedule). *)
(* SpecRetry is the retry variant of the queue, SpecList and SpecPost are  *)
(* the two routes, SpecConv is one run of the converter process, one step  *)
(* per awaited call (SpecConvFair: every call returns), SpecOps is the     *)
(* retried operations of the converter event by event, SpecSrt is the SRT  *)
(* to WebVTT conversion, SpecTrack is the choice of the reference video    *)
(* stream and of the encode size, SpecHls is the assembly of the bundle    *)
(* by hlsFy, SpecPool is the queue with more pushes than slots.            *)
(***************************************************************************)
EXTENDS Integers, Sequences, FiniteSets, TLC

\* job-pool size (process.env.CONCURRENCY)
CONCURRENCY == 2

\* rows the table may hold, and the longest INITIAL_ITEMS list
MaxRows == 2
MaxSeeds == 1

\* pushes per process lifetime: enough to fill the pool and queue one more
MaxPushes == CONCURRENCY + 1

Sources == {"http://x/a.mp4"}

\* exit codes of the isolated process: 0, 1 (process.exit(1)), and -1 for the
\* `null` code node reports when the child was killed by a signal
ExitCodes == {0, 1, -1}

VARIABLES
    phase,      \* "up": the server process runs; "down": it has exited
    env,        \* [ignore, sentry]: IGNORE_CHECK_PROCESS = "true", SENTRY_DSN set
    db,         \* process_queue: row i has id i (AUTOINCREMENT, never deleted)
    exec,       \* the pushes of this lifetime, by ticket: one fastq task each
    nextT,      \* number of pushes made in this lifetime
    waiting,    \* fastq's list of tasks waiting for a slot (tickets, FIFO)
    tmpDirs,    \* tickets whose params folder exists under TEMP_DIR
    outFiles,   \* tickets whose output-metadata.json exists
    flushing,   \* a checkProcess call is suspended at `await Sentry.flush()`
    exitCause,  \* how the process went down, and what was in flight then
    obs,        \* what the step just taken did (its return value, its inputs)
    retryQ,     \* the queue of the retry variant (SpecRetry)
    listReq,    \* a GET / request and its answer (SpecList)
    postReq,    \* a POST / request and its answer (SpecPost)
    conv,       \* one run of the converter in its isolated process (SpecConv)
    srt,        \* one call of srtToVtt: the file read and the text written (SpecSrt)
    ops,        \* retried operations of the converter, call by call (SpecOps)
    sel,        \* the probe, the reference stream and one video task (SpecTrack)
    hls         \* the track tasks' results and the call of hlsFy (SpecHls)

vars == <<phase, env, db, exec, nextT, waiting, tmpDirs, outFiles, flushing,
          exitCause, obs>>

\* Each specification below runs one component; the variables of the others
\* rest at "idle".
sideVars == <<retryQ, listReq, postReq, conv, srt, ops, sel, hls>>

SideIdle ==
    /\ retryQ = "idle" /\ listReq = "idle" /\ postReq = "idle"
    /\ conv = "idle" /\ srt = "idle" /\ ops = "idle" /\ sel = "idle" /\ hls = "idle"

Tickets == 1..MaxPushes

\* ConverterParams as far as the queue reads them; processId 0 is "absent"
\* (the code tests `params.processId ||`, so 0 and undefined are the same).
\* A request that carries an id carries the id of a row (see Acceptable).
Params == [processId : 0..MaxRows, callbackUrl : BOOLEAN, source : Sources]

\* st: "none" (ticket unused), "queued", "running" (child alive),
\* "notifying" (callback POST in flight), "finished" (the pool forgot the task)
NoExec == [pid |-> 0, cb |-> FALSE, st |-> "none", wrote |-> FALSE,
           post |-> <<>>]

Finished == [NoExec EXCEPT !.st = "finished"]

\* obs.kind: "boot" (rec: the ids startup rewrote), "push" (id, new: the
\* request carried no id, free: a slot was free, status: of the row returned),
\* "exit" (id, code, status: the status the handler wrote), "callback" (id,
\* status: "sent" or "error"), "check" (checkProcess returned), "none".
\* fresh: the tickets of this step's pushes whose request carried no id.
NoObs == [kind |-> "none", id |-> 0, new |-> FALSE, free |-> FALSE,
          status |-> "none", code |-> 0, rec |-> {}, fresh |-> {}]

NoExit == [cause |-> "none", pending |-> FALSE, alive |-> 0, queued |-> 0]

----------------------------------------------------------------------------
\* The store

\* UPDATE process_queue SET status = ? WHERE id = ?  (no row: no change)
SetStatus(d, id, s) ==
    IF id \in 1..Len(d) THEN [d EXCEPT ![id].status = s] ELSE d

\* INSERT INTO process_queue (status, source) VALUES ('pending', source)
InsertPending(d, source) ==
    Append(d, [status |-> "pending", source |-> source])

\* SELECT * FROM process_queue WHERE id = ?  (the status; "undefined": no row)
getProcess(d, id) ==
    IF id \in 1..Len(d) THEN d[id].status ELSE "undefined"

IsPendingRow(r) == r.status = "pending" \/ r.status = "processing"

hasPendingOnlyProcessing(d) ==
    Len(SelectSeq(d, LAMBDA r : r.status = "processing")) > 0

\* SELECT ... WHERE status = 'pending' OR status = 'processing'; length > 0
hasPending(d) ==
    Len(SelectSeq(d, IsPendingRow)) > 0

RecoverAll(d) ==
    [i \in 1..Len(d) |-> [d[i] EXCEPT !.status = "failed"]]

\* UPDATE ... SET status = 'failed' WHERE status = 'pending' OR 'processing'
Recover(d) ==
    [i \in 1..Len(d) |->
        IF IsPendingRow(d[i]) THEN [d[i] EXCEPT !.status = "failed"] ELSE d[i]]

\* the onStart closure push() builds: UPDATE ... SET status = 'processing'
onStart(d, id) == SetStatus(d, id, "processing")

----------------------------------------------------------------------------
\* The pool.  Q is the part of the state that push() and the worker touch:
\* [db, exec, n, waiting, tmp, ret].

Running(ex) == Cardinality({t \in DOMAIN ex : ex[t].st = "running"})

workerCallsOnStart(Q, t) ==
    [Q EXCEPT !.exec[t].st = "running", !.tmp = @ \cup {t},
              !.db = onStart(Q.db, Q.exec[t].pid)]

\* worker(), up to its await: mkdtemp, write params.json (JSON.stringify drops
\* the onStart function), spawn the converter.  onStart is not called.
worker(Q, t) ==
    [Q EXCEPT !.exec[t].st = "running", !.tmp = @ \cup {t}]

fastqPushUnbounded(Q, t) == worker(Q, t)

fastqPushFront(Q, t) ==
    IF Running(Q.exec) < CONCURRENCY
    THEN worker(Q, t)
    ELSE [Q EXCEPT !.waiting = <<t>> \o @]

\* fastq push: run the worker now if a slot is free, else queue the task
fastqPush(Q, t) ==
    IF Running(Q.exec) < CONCURRENCY
    THEN worker(Q, t)
    ELSE [Q EXCEPT !.waiting = Append(@, t)]

fastqReleaseLeak(Q) == Q

\* fastq release, after a worker settled: the next waiting task takes the slot
fastqRelease(Q) ==
    IF Q.waiting # <<>>
    THEN worker([Q EXCEPT !.waiting = Tail(@)], Head(Q.waiting))
    ELSE Q

pushAlwaysInserts(Q, p) ==
    LET d1 == InsertPending(Q.db, p.source)
        t == Q.n + 1
        Q1 == [Q EXCEPT !.db = d1, !.n = t,
                        !.exec[t] = [NoExec EXCEPT !.pid = Len(d1),
                                                   !.cb = p.callbackUrl,
                                                   !.st = "queued"]]
        Q2 == fastqPush(Q1, t)
    IN  [Q2 EXCEPT !.ret = [NoObs EXCEPT !.kind = "push",
                                         !.id = Len(d1),
                                         !.new = (p.processId = 0),
                                         !.fresh = IF p.processId = 0
                                                   THEN {t} ELSE {},
                                         !.free = (Q2.exec[t].st = "running"),
                                         !.status = getProcess(Q2.db, Len(d1))]]

\* Queue.push: insert unless the request carries an id, hand the task to the
\* pool, return the row
push(Q, p) ==
    LET d1 == IF p.processId = 0 THEN InsertPending(Q.db, p.source) ELSE Q.db
        processId == IF p.processId = 0 THEN Len(d1) ELSE p.processId
        t == Q.n + 1
        Q1 == [Q EXCEPT !.db = d1, !.n = t,
                        !.exec[t] = [NoExec EXCEPT !.pid = processId,
                                                   !.cb = p.callbackUrl,
                                                   !.st = "queued"]]
        Q2 == fastqPush(Q1, t)
    IN  [Q2 EXCEPT !.ret = [NoObs EXCEPT !.kind = "push",
                                         !.id = processId,
                                         !.new = (p.processId = 0),
                                         !.fresh = IF p.processId = 0
                                                   THEN {t} ELSE {},
                                         !.free = (Q2.exec[t].st = "running"),
                                         !.status = getProcess(Q2.db, processId)]]

RECURSIVE pushAll(_, _)
pushAll(Q, items) ==
    IF items = <<>> THEN Q ELSE pushAll(push(Q, Head(items)), Tail(items))

\* after the handler and its callback are over nothing refers to the task
Settle(e, status) ==
    IF e.cb THEN [e EXCEPT !.st = "notifying", !.post = Append(@, status)]
            ELSE Finished

\* the .then handler of push(): mark done, POST the callback if asked
thenHandler(Q, t) ==
    [Q EXCEPT !.db = SetStatus(Q.db, Q.exec[t].pid, "done"),
              !.exec[t] = Settle(@, "done"),
              !.ret = [NoObs EXCEPT !.kind = "exit", !.id = Q.exec[t].pid,
                                    !.status = "done"]]

catchHandlerPostsDone(Q, t) ==
    [Q EXCEPT !.db = SetStatus(Q.db, Q.exec[t].pid, "failed"),
              !.exec[t] = Settle(@, "done"),
              !.ret = [NoObs EXCEPT !.kind = "exit", !.id = Q.exec[t].pid,
                                    !.status = "failed"]]

\* the .catch handler of push(): mark failed, POST the callback if asked
catchHandler(Q, t) ==
    [Q EXCEPT !.db = SetStatus(Q.db, Q.exec[t].pid, "failed"),
              !.exec[t] = Settle(@, "failed"),
              !.ret = [NoObs EXCEPT !.kind = "exit", !.id = Q.exec[t].pid,
                                    !.status = "failed"]]

\* worker() after the child's exit event: resolve on code 0 and a readable
\* result file, reject otherwise; the params folder is removed either way
workerSettled(Q, t, code, readable) ==
    LET Q1 == [Q EXCEPT !.tmp = @ \ {t}]
        Q2 == IF code = 0 /\ readable THEN thenHandler(Q1, t)
                                      ELSE catchHandler(Q1, t)
    IN  fastqRelease(Q2)

callbackErrorEscalates(Q, t) ==
    [Q EXCEPT !.exec[t] = Finished,
              !.db = SetStatus(Q.db, Q.exec[t].pid, "failed"),
              !.ret = [NoObs EXCEPT !.kind = "callback", !.id = Q.exec[t].pid,
                                    !.status = "error"]]

\* axios.post threw: the error is logged
callbackError(Q, t) ==
    [Q EXCEPT !.exec[t] = Finished,
              !.ret = [NoObs EXCEPT !.kind = "callback", !.id = Q.exec[t].pid,
                                    !.status = "error"]]

\* axios.post returned: "Sent callback" is logged
callbackSent(Q, t) ==
    [Q EXCEPT !.exec[t] = Finished,
              !.ret = [NoObs EXCEPT !.kind = "callback", !.id = Q.exec[t].pid,
                                    !.status = "sent"]]

\* cleanTemp: remove every entry of TEMP_DIR
cleanTemp(S) == {}

Cur == [db |-> db, exec |-> exec, n |-> nextT, waiting |-> waiting,
        tmp |-> tmpDirs, ret |-> NoObs]

Install(Q) ==
    /\ db' = Q.db
    /\ exec' = Q.exec
    /\ nextT' = Q.n
    /\ waiting' = Q.waiting
    /\ tmpDirs' = Q.tmp

----------------------------------------------------------------------------
\* Startup

\* the requests considered: a new job while the table has room, or a
\* resubmission that names a row of the table
Acceptable(len, p) ==
    IF p.processId = 0 THEN len < MaxRows ELSE p.processId <= len

RECURSIVE AcceptableAll(_, _)
AcceptableAll(len, items) ==
    \/ items = <<>>
    \/ /\ items # <<>>
       /\ Acceptable(len, Head(items))
       /\ AcceptableAll(IF Head(items).processId = 0 THEN len + 1 ELSE len,
                        Tail(items))

SeedLists == UNION {[1..k -> Params] : k \in 0..MaxSeeds}

\* the seed items that carry no processId (item k becomes ticket k)
FreshOf(items) == {k \in 1..Len(items) : items[k].processId = 0}

Envs == [ignore : BOOLEAN, sentry : BOOLEAN]

BootReplaysFirst(d, items) ==
    LET Q == pushAll([db |-> d, exec |-> [t \in Tickets |-> NoExec], n |-> 0,
                      waiting |-> <<>>, tmp |-> cleanTemp(tmpDirs),
                      ret |-> NoObs], items)
    IN  [Q EXCEPT !.db = Recover(Q.db)]

\* new Queue(): crash recovery, temp directory emptied, INITIAL_ITEMS pushed
Boot(d, items) ==
    pushAll([db |-> Recover(d), exec |-> [t \in Tickets |-> NoExec], n |-> 0,
             waiting |-> <<>>, tmp |-> cleanTemp(tmpDirs), ret |-> NoObs],
            items)

Init ==
    /\ phase = "up"
    /\ env \in Envs
    /\ \E items \in SeedLists :
         LET Q == Boot(<<>>, items) IN
           /\ AcceptableAll(0, items)
           /\ db = Q.db
           /\ exec = Q.exec
           /\ nextT = Q.n
           /\ waiting = Q.waiting
           /\ tmpDirs = Q.tmp
           /\ obs = [NoObs EXCEPT !.kind = "boot", !.fresh = FreshOf(items)]
    /\ outFiles = {}
    /\ flushing = FALSE
    /\ exitCause = NoExit
    /\ SideIdle

Startup ==
    /\ phase = "down"
    /\ phase' = "up"
    /\ env' \in Envs
    /\ \E items \in SeedLists :
         /\ AcceptableAll(Len(db), items)
         /\ Install(Boot(db, items))
         /\ obs' = [NoObs EXCEPT
                       !.kind = "boot",
                       !.rec = {i \in 1..Len(db) : IsPendingRow(db[i])},
                       !.fresh = FreshOf(items)]
    /\ outFiles' = cleanTemp(outFiles)
    /\ flushing' = FALSE
    /\ exitCause' = NoExit
    /\ UNCHANGED sideVars

----------------------------------------------------------------------------
\* Requests and events while the process runs

\* POST /: the route hands the validated body to queue.push
Push ==
    /\ phase = "up"
    /\ nextT < MaxPushes
    /\ \E p \in Params :
         /\ Acceptable(Len(db), p)
         /\ Install(push(Cur, p))
         /\ obs' = push(Cur, p).ret
    /\ UNCHANGED <<phase, env, outFiles, flushing, exitCause>>
    /\ UNCHANGED sideVars

\* the converter finished and main() wrote its result file (needs the folder)
ChildWrite ==
    /\ phase = "up"
    /\ \E t \in Tickets :
         /\ exec[t].st = "running"
         /\ ~exec[t].wrote
         /\ t \in tmpDirs
         /\ exec' = [exec EXCEPT ![t].wrote = TRUE]
         /\ outFiles' = outFiles \cup {t}
    /\ obs' = NoObs
    /\ UNCHANGED <<phase, env, db, nextT, waiting, tmpDirs, flushing, exitCause>>
    /\ UNCHANGED sideVars

\* the child's exit event.  The code is 0 after main() wrote the result
\* file, and also when the child ran out of work before that (ConvLoopEmpty)
ChildExit ==
    /\ phase = "up"
    /\ \E t \in Tickets, code \in ExitCodes :
         /\ exec[t].st = "running"
         /\ Install(workerSettled(Cur, t, code, t \in outFiles))
         /\ obs' = [workerSettled(Cur, t, code, t \in outFiles).ret
                       EXCEPT !.code = code]
         /\ outFiles' = outFiles \ {t}
    /\ UNCHANGED <<phase, env, flushing, exitCause>>
    /\ UNCHANGED sideVars

\* the callback POST of a settled job returned or threw
CallbackSettle ==
    /\ phase = "up"
    /\ \E t \in Tickets, ok \in BOOLEAN :
         /\ exec[t].st = "notifying"
         /\ Install(IF ok THEN callbackSent(Cur, t) ELSE callbackError(Cur, t))
         /\ obs' = (IF ok THEN callbackSent(Cur, t) ELSE callbackError(Cur, t)).ret
    /\ UNCHANGED <<phase, env, outFiles, flushing, exitCause>>
    /\ UNCHANGED sideVars

\* process.exit, or the death of the process: what was in memory is gone
Die(cause) ==
    /\ phase' = "down"
    /\ exitCause' = [cause |-> cause, pending |-> hasPending(db),
                     alive |-> Running(exec), queued |-> Len(waiting)]
    /\ exec' = [t \in Tickets |-> NoExec]
    /\ nextT' = 0
    /\ waiting' = <<>>
    /\ flushing' = FALSE
    /\ obs' = NoObs
    /\ UNCHANGED <<env, db>>
    /\ UNCHANGED sideVars

CheckProcessWithoutFlag ==
    /\ phase = "up"
    /\ IF hasPending(db)
       THEN /\ obs' = [NoObs EXCEPT !.kind = "check"]
            /\ UNCHANGED <<phase, env, db, exec, nextT, waiting, tmpDirs,
                           outFiles, flushing, exitCause>>
            /\ UNCHANGED sideVars
       ELSE IF env.sentry
            THEN /\ tmpDirs' = cleanTemp(tmpDirs)
                 /\ outFiles' = cleanTemp(outFiles)
                 /\ flushing' = TRUE
                 /\ obs' = [NoObs EXCEPT !.kind = "check"]
                 /\ UNCHANGED <<phase, env, db, exec, nextT, waiting, exitCause>>
                 /\ UNCHANGED sideVars
            ELSE /\ tmpDirs' = cleanTemp(tmpDirs)
                 /\ outFiles' = cleanTemp(outFiles)
                 /\ Die("watchdog")

CheckProcessSkipsClean ==
    /\ phase = "up"
    /\ IF env.ignore \/ hasPending(db)
       THEN /\ obs' = [NoObs EXCEPT !.kind = "check"]
            /\ UNCHANGED <<phase, env, db, exec, nextT, waiting, tmpDirs,
                           outFiles, flushing, exitCause>>
            /\ UNCHANGED sideVars
       ELSE IF env.sentry
            THEN /\ flushing' = TRUE
                 /\ obs' = [NoObs EXCEPT !.kind = "check"]
                 /\ UNCHANGED <<phase, env, db, exec, nextT, waiting, tmpDirs,
                                outFiles, exitCause>>
                 /\ UNCHANGED sideVars
            ELSE /\ UNCHANGED <<tmpDirs, outFiles>>
                 /\ Die("watchdog")

\* checkProcess, up to `await Sentry.flush()` or process.exit(0)
CheckProcess ==
    /\ phase = "up"
    /\ IF env.ignore \/ hasPending(db)
       THEN /\ obs' = [NoObs EXCEPT !.kind = "check"]
            /\ UNCHANGED <<phase, env, db, exec, nextT, waiting, tmpDirs,
                           outFiles, flushing, exitCause>>
            /\ UNCHANGED sideVars
       ELSE IF env.sentry
            THEN /\ tmpDirs' = cleanTemp(tmpDirs)
                 /\ outFiles' = cleanTemp(outFiles)
                 /\ flushing' = TRUE
                 /\ obs' = [NoObs EXCEPT !.kind = "check"]
                 /\ UNCHANGED <<phase, env, db, exec, nextT, waiting, exitCause>>
                 /\ UNCHANGED sideVars
            ELSE /\ tmpDirs' = cleanTemp(tmpDirs)
                 /\ outFiles' = cleanTemp(outFiles)
                 /\ Die("watchdog")

\* checkProcess after the flush: process.exit(0)
FlushDone ==
    /\ phase = "up"
    /\ flushing
    /\ Die("watchdog")
    /\ UNCHANGED <<tmpDirs, outFiles>>

\* the server process is killed or the host goes down
Crash ==
    /\ phase = "up"
    /\ Die("crash")
    /\ UNCHANGED <<tmpDirs, outFiles>>

Next ==
    \/ Startup
    \/ Push
    \/ ChildWrite
    \/ ChildExit
    \/ CallbackSettle
    \/ CheckProcess
    \/ FlushDone
    \/ Crash

Spec == Init /\ [][Next]_vars

\* node-cron keeps calling checkProcess while the process runs, and a pending
\* Sentry.flush() settles
SpecFair == Spec /\ WF_vars(CheckProcess) /\ WF_vars(FlushDone)

----------------------------------------------------------------------------
Statuses == {"pending", "processing", "done", "failed"}

TypeOK ==
    /\ phase \in {"up", "down"}
    /\ env \in Envs
    /\ \A i \in 1..Len(db) : db[i].status \in Statuses /\ db[i].source \in Sources
    /\ Len(db) <= MaxRows
    /\ nextT \in 0..MaxPushes
    /\ \A t \in Tickets :
         exec[t].st \in {"none", "queued", "running", "notifying", "finished"}
    /\ \A k \in 1..Len(waiting) : exec[waiting[k]].st = "queued"
    /\ outFiles \subseteq tmpDirs

----------------------------------------------------------------------------
\* Properties

Rows == 1..Len(db)

Terminal == {"done", "failed"}

Processing(d) == {i \in 1..Len(d) : d[i].status = "processing"}

\* the task whose child's exit event this step handled
Exited(t) == exec[t].st = "running" /\ exec'[t].st # "running" /\ phase' = "up"

\* C1: while the server runs, a row leaves pending only for processing, and
\* reaches done or failed only from processing
C1_StatusSequence ==
    [][phase = "up" /\ phase' = "up" =>
         \A i \in Rows :
           /\ db[i].status = "pending" =>
                db'[i].status \in {"pending", "processing"}
           /\ db'[i].status \in Terminal /\ db[i].status # db'[i].status =>
                db[i].status = "processing"]_vars

C3_ConcurrencyBound ==
    /\ Running(exec) <= CONCURRENCY
    /\ Cardinality(Processing(db)) <= CONCURRENCY
    /\ \A t \in Tickets :
         exec[t].st = "queued" <=> \E k \in 1..Len(waiting) : waiting[k] = t

C3_Witness ==
    Running(exec) = CONCURRENCY /\ Len(waiting) > 0

\* C4: hasPending() is false exactly when every row is done or failed,
\* whatever the pool holds
C4_HasPendingIffNonTerminal ==
    hasPending(db) = ~(\A i \in Rows : db[i].status \in Terminal)

C4_Witness ==
    /\ phase = "up" /\ Len(db) > 0
    /\ ~hasPending(db)
    /\ Running(exec) > 0

\* C5: when checkProcess terminates the process no job is pending or
\* processing, none is waiting in the pool and no isolated process is alive
C5_WatchdogOnlyWhenIdle ==
    exitCause.cause = "watchdog" =>
        ~exitCause.pending /\ exitCause.alive = 0 /\ exitCause.queued = 0

\* C6: startup rewrites exactly the pending and processing rows to failed and
\* leaves every other status, every id and every source as they were
C6_RecoveryFrame ==
    [][phase = "down" /\ phase' = "up" =>
         /\ Len(db') >= Len(db)
         /\ \A i \in Rows :
              /\ db'[i].source = db[i].source
              /\ db'[i].status =
                   IF db[i].status \in {"pending", "processing"}
                   THEN "failed" ELSE db[i].status]_vars

C6_Witness ==
    /\ obs.kind = "boot" /\ obs.rec # {}
    /\ \A i \in obs.rec : db[i].status = "failed"
    /\ \E j \in Rows : db[j].status = "done"

\* C7: the status written for a job is done exactly when its isolated process
\* exited with code 0, and failed exactly when it exited otherwise
C7_ExitCodeDecides ==
    obs.kind = "exit" =>
        /\ obs.status = "done" <=> obs.code = 0
        /\ obs.status = "failed" <=> obs.code # 0
        /\ obs.id \in Rows => db[obs.id].status = obs.status

\* C8: a non-zero exit changes only that job's row, to failed; the server
\* stays up, the slot goes to the next waiting task, no other task is touched
C8_FailureIsIsolated ==
    [][\A t \in Tickets :
         Exited(t) /\ obs'.code # 0 =>
           /\ phase' = "up"
           /\ Len(db') = Len(db)
           /\ \A i \in Rows :
                db'[i] = IF i = exec[t].pid
                         THEN [db[i] EXCEPT !.status = "failed"] ELSE db[i]
           /\ IF waiting = <<>>
              THEN waiting' = <<>> /\ Running(exec') = Running(exec) - 1
              ELSE /\ waiting' = Tail(waiting)
                   /\ exec'[Head(waiting)].st = "running"
                   /\ Running(exec') = Running(exec)
           /\ \A u \in Tickets :
                u # t /\ (waiting = <<>> \/ u # Head(waiting)) =>
                    exec'[u] = exec[u]]_vars

C8_Witness ==
    /\ phase = "up"
    /\ obs.kind = "exit" /\ obs.code # 0
    /\ obs.id \in Rows /\ db[obs.id].status = "failed"
    /\ Running(exec) = CONCURRENCY
    /\ \E j \in Rows : j # obs.id /\ db[j].status = "pending"

\* C9: an execution with a callbackUrl attempts its POST once, in the step
\* that persisted the terminal status, carrying that status; without a
\* callbackUrl nothing is posted
C9_OneCallbackAfterPersist ==
    [][\A t \in Tickets :
         /\ exec'[t].st \in {"none", "queued", "running", "finished"} =>
              exec'[t].post = <<>>
         /\ Exited(t) =>
              IF exec[t].cb
              THEN /\ exec'[t].st = "notifying"
                   /\ exec'[t].post = <<obs'.status>>
                   /\ exec[t].pid \in Rows =>
                        db'[exec[t].pid].status = exec'[t].post[1]
              ELSE exec'[t] = Finished
         /\ exec[t].st = "notifying" /\ phase' = "up" =>
              exec'[t] = exec[t] \/ exec'[t] = Finished]_vars

C9_Witness ==
    \E t \in Tickets :
      /\ exec[t].st = "notifying" /\ exec[t].post = <<"failed">>
      /\ exec[t].pid \in Rows /\ db[exec[t].pid].status = "failed"
      /\ obs.kind = "exit" /\ obs.id = exec[t].pid

\* C10: a callback POST that fails leaves the table as it is, is not
\* repeated, and leaves every other task and the pool as they are
C10_CallbackFailureIsLogged ==
    [][obs'.kind = "callback" /\ obs'.status = "error" =>
         /\ db' = db
         /\ phase' = "up"
         /\ waiting' = waiting
         /\ \A t \in Tickets :
              IF exec[t].st = "notifying" /\ exec'[t] # exec[t]
              THEN exec'[t] = Finished /\ exec[t].pid = obs'.id
              ELSE exec'[t] = exec[t]]_vars

C10_Witness ==
    /\ obs.kind = "callback" /\ obs.status = "error"
    /\ obs.id \in Rows /\ db[obs.id].status = "done"
    /\ Running(exec) > 0

\* C11: the table grows by exactly one row per push that carries no id and by
\* none for a push that carries one; a push with an id leaves every row as it
\* is and its task writes to the row of that id only
C11_InsertOnlyWithoutId ==
    /\ Len(db) = Cardinality(obs.fresh)
    /\ [][/\ Len(db') = Len(db) + Cardinality(obs'.fresh)
          /\ obs'.kind = "push" /\ ~obs'.new =>
               /\ db' = db
               /\ obs'.id \in Rows
               /\ exec'[nextT'].pid = obs'.id
          /\ \A t \in Tickets :
               Exited(t) =>
                 \A i \in Rows : i # exec[t].pid => db'[i] = db[i]]_vars

C11_Witness ==
    /\ obs.kind = "push" /\ ~obs.new /\ obs.fresh = {}
    /\ obs.id \in Rows /\ db[obs.id].status = "done"
    /\ exec[nextT].pid = obs.id /\ exec[nextT].st = "running"
    /\ Len(db) = MaxRows

\* the tasks of the pool that are waiting for a slot or running
InFlight == {t \in Tickets : exec[t].st \in {"queued", "running"}}

\* C13: no two tasks that are queued or running at the same time are bound to
\* the same job id
C13_OneExecutionPerJob ==
    \A t, u \in InFlight : t # u => exec[t].pid # exec[u].pid

\* C14: a done row stays done; while the server runs a failed row changes
\* only when a task pushed with its id settles; no row goes back to pending
C14_TerminalIsFinal ==
    [][\A i \in Rows :
         /\ db[i].status = "done" => db'[i].status = "done"
         /\ db[i].status = "failed" /\ db'[i].status # "failed"
              /\ phase = "up" /\ phase' = "up" =>
                \E t \in Tickets : Exited(t) /\ exec[t].pid = i
         /\ db[i].status \in Terminal => db'[i].status # "pending"]_vars

\* C15: with IGNORE_CHECK_PROCESS = "true" a call of checkProcess changes
\* nothing: the temp directory keeps its entries, no flush is started and the
\* process is never ended by the watchdog
C15_IgnoredCheckIsNoOp ==
    /\ [](env.ignore => exitCause.cause # "watchdog" /\ ~flushing)
    /\ [][env.ignore /\ obs'.kind = "check" =>
            UNCHANGED <<phase, db, exec, nextT, waiting, tmpDirs, outFiles,
                        flushing, exitCause>>]_vars

C15_Witness ==
    /\ env.ignore /\ obs.kind = "check" /\ phase = "up"
    /\ Len(db) > 0 /\ ~hasPending(db)
    /\ Running(exec) > 0 /\ tmpDirs # {} /\ outFiles # {}

\* the watchdog is enabled and no row is pending or processing
Idle == phase = "up" /\ ~env.ignore /\ ~hasPending(db)

\* C16: a check made while Idle empties the temp directory and either ends
\* the process or waits for the flush that ends it; every end by the watchdog
\* leaves the directory as the check emptied it or as later pushes filled it;
\* and, checks being repeated, Idle leads to the end of the process unless a
\* new job arrives
C16_IdleCheckExits ==
    /\ [][/\ Idle /\ obs'.kind = "check" =>
               flushing' /\ tmpDirs' = {} /\ outFiles' = {} /\ phase' = "up"
          /\ Idle /\ ~env.sentry /\ phase' = "down"
               /\ exitCause'.cause = "watchdog" =>
               tmpDirs' = {} /\ outFiles' = {}
          /\ phase = "up" /\ phase' = "down" /\ exitCause'.cause = "watchdog" =>
               IF env.sentry THEN flushing ELSE Idle]_vars
    /\ Idle ~> (phase = "down" \/ hasPending(db))

C16_Witness ==
    /\ phase = "down" /\ exitCause.cause = "watchdog"
    /\ ~exitCause.pending /\ exitCause.alive > 0
    /\ ~env.sentry /\ tmpDirs = {}
    /\ \E i \in Rows : db[i].status = "done"

C37_NoExitDuringCallback ==
    [][phase = "up" /\ phase' = "down" /\ exitCause'.cause = "watchdog" =>
         \A t \in Tickets : exec[t].st # "notifying"]_vars

\* C39: the folder of a task whose isolated process is alive is not removed;
\* it goes only when the worker has seen the exit of that process
C39_NoCleanInFlight ==
    [][\A t \in Tickets :
         exec[t].st = "running" /\ t \in tmpDirs /\ t \notin tmpDirs' =>
             exec'[t].st \in {"notifying", "finished"}]_vars

----------------------------------------------------------------------------
\* The retry variant of the queue (unnamed/part_002: the converter runs in
\* the server process; unnamed/part_003, second file: it runs in a process of
\* its own).  One process lifetime; requests arrive through the route and
\* carry no processId, so every push with an id is a retry made by push().

\* the main queue, while another component is looked at
QueueIdle ==
    /\ phase = "down"
    /\ env = [ignore |-> TRUE, sentry |-> FALSE]
    /\ db = <<>>
    /\ exec = [t \in Tickets |-> NoExec]
    /\ nextT = 0
    /\ waiting = <<>>
    /\ tmpDirs = {}
    /\ outFiles = {}
    /\ flushing = FALSE
    /\ exitCause = NoExit
    /\ obs = NoObs

\* retry ceiling (process.env.MAX_RETRY)
MAX_RETRY == 3

\* jobs submitted in the lifetime
MaxRetryJobs == 3

\* retryQ = [inProcess: the worker is the converter itself, which calls
\* onStart; db; running: the tasks whose worker runs; waiting; fails: per row,
\* the attempts that have failed; obs: what the last step did]
\* a task is [id, attempt]
RetryTasksOf(R, i) ==
    {k \in R.running : k.id = i}
        \cup {R.waiting[j] : j \in {j \in 1..Len(R.waiting) : R.waiting[j].id = i}}

\* the worker starts: part_002's converter calls onStart, part_003's worker
\* passes the params through JSON and never calls it
retryWorker(R, task) ==
    [R EXCEPT !.running = @ \cup {task},
              !.db = IF R.inProcess THEN onStart(@, task.id) ELSE @]

retryFastqPush(R, task) ==
    IF Cardinality(R.running) < CONCURRENCY
    THEN retryWorker(R, task)
    ELSE [R EXCEPT !.waiting = Append(@, task)]

retryFastqRelease(R) ==
    IF R.waiting # <<>>
    THEN retryWorker([R EXCEPT !.waiting = Tail(@)], Head(R.waiting))
    ELSE R

\* push(params, attempt = 0)
retryPush(R, p, attempt) ==
    LET d1 == IF p.processId = 0 THEN InsertPending(R.db, p.source) ELSE R.db
        processId == IF p.processId = 0 THEN Len(d1) ELSE p.processId
    IN  retryFastqPush(
            [R EXCEPT !.db = d1,
                      !.fails = IF p.processId = 0 THEN Append(@, 0) ELSE @],
            [id |-> processId, attempt |-> attempt])

\* the .then handler
retryThen(R, task) == [R EXCEPT !.db = SetStatus(@, task.id, "done")]

retryCatchOffByOne(R, task) ==
    IF task.attempt > MAX_RETRY
    THEN [R EXCEPT !.db = SetStatus(@, task.id, "failed")]
    ELSE retryPush(R, [processId |-> task.id, source |-> R.db[task.id].source],
                   task.attempt + 1)

\* the .catch handler: give up at the ceiling, else push again with the id
retryCatch(R, task) ==
    IF task.attempt >= MAX_RETRY
    THEN [R EXCEPT !.db = SetStatus(@, task.id, "failed")]
    ELSE retryPush(R, [processId |-> task.id, source |-> R.db[task.id].source],
                   task.attempt + 1)

RetryObs(kind, id, attempt) == [kind |-> kind, id |-> id, attempt |-> attempt]

InitRetry ==
    /\ QueueIdle
    /\ listReq = "idle" /\ postReq = "idle" /\ conv = "idle" /\ srt = "idle"
    /\ ops = "idle" /\ sel = "idle" /\ hls = "idle"
    /\ \E v \in BOOLEAN :
         retryQ = [inProcess |-> v, db |-> <<>>, running |-> {},
                   waiting |-> <<>>, fails |-> <<>>,
                   obs |-> RetryObs("boot", 0, 0)]

\* POST /: a new job
RetrySubmit ==
    /\ Len(retryQ.db) < MaxRetryJobs
    /\ \E src \in Sources :
         retryQ' = [retryPush(retryQ, [processId |-> 0, source |-> src], 0)
                      EXCEPT !.obs = RetryObs("push", Len(retryQ.db) + 1, 0)]
    /\ UNCHANGED <<vars, listReq, postReq, conv, srt, ops, sel, hls>>

\* an attempt settles: fastq hands the slot on, then the handler runs
RetryAttemptEnds ==
    /\ \E task \in retryQ.running, ok \in BOOLEAN :
         LET R1 == retryFastqRelease([retryQ EXCEPT !.running = @ \ {task}])
             R2 == IF ok THEN retryThen(R1, task)
                         ELSE retryCatch([R1 EXCEPT !.fails[task.id] = @ + 1],
                                         task)
         IN  retryQ' = [R2 EXCEPT !.obs = RetryObs(IF ok THEN "done" ELSE "fail",
                                                   task.id, task.attempt)]
    /\ UNCHANGED <<vars, listReq, postReq, conv, srt, ops, sel, hls>>

NextRetry == RetrySubmit \/ RetryAttemptEnds

SpecRetry == InitRetry /\ [][NextRetry]_<<vars, sideVars>>

----------------------------------------------------------------------------
\* GET /: the list route and Queue.listProcess

\* rows in the table when the list is asked for
MaxListRows == 3

\* req.query.limit as sent; "" stands for a request without the parameter
ListQueries == {"", "abc", "-1", "0", "1", "2", "100"}

\* Number(s) for the strings above; NaN has no numeric value
Number(q) ==
    CASE q = "-1" -> [nan |-> FALSE, n |-> -1]
      [] q = "0" -> [nan |-> FALSE, n |-> 0]
      [] q = "1" -> [nan |-> FALSE, n |-> 1]
      [] q = "2" -> [nan |-> FALSE, n |-> 2]
      [] q = "100" -> [nan |-> FALSE, n |-> 100]
      [] OTHER -> [nan |-> TRUE, n |-> 0]

\* const limit = Number(req.query.limit || "100")
routeLimit(q) == IF q = "" THEN Number("100") ELSE Number(q)

\* truthiness of a number: neither 0 nor NaN
Truthy(v) == ~v.nan /\ v.n # 0

\* ORDER BY id DESC
OrderByIdDesc(d) ==
    [k \in 1..Len(d) |-> [id |-> Len(d) + 1 - k, status |-> d[Len(d) + 1 - k]]]

\* LIMIT n: sqlite takes a negative n as "no limit"
Limit(rows, n) ==
    IF n < 0 \/ n >= Len(rows) THEN rows ELSE SubSeq(rows, 1, n)

\* listProcess(limit): the possible results.  With a falsy limit the query
\* has no LIMIT clause; node's driver is still handed the value as a bound
\* parameter for a statement that has none, which it may reject, and the bun
\* variant (part_001) runs the query without it.
listProcess(d, limit) ==
    IF Truthy(limit)
    THEN {[ok |-> TRUE, rows |-> Limit(OrderByIdDesc(d), limit.n)]}
    ELSE {[ok |-> TRUE, rows |-> OrderByIdDesc(d)],
          [ok |-> FALSE, rows |-> <<>>]}

ListDbs == UNION {[1..n -> Statuses] : n \in 0..MaxListRows}

InitList ==
    /\ QueueIdle
    /\ retryQ = "idle" /\ postReq = "idle" /\ conv = "idle" /\ srt = "idle"
    /\ ops = "idle" /\ sel = "idle" /\ hls = "idle"
    /\ \E d \in ListDbs, q \in ListQueries :
         listReq = [db |-> d, query |-> q, status |-> 0, rows |-> <<>>]

\* the handler: 200 with the rows; an exception of listProcess escapes it
ListRoute ==
    /\ listReq.status = 0
    /\ \E r \in listProcess(listReq.db, routeLimit(listReq.query)) :
         listReq' = [listReq EXCEPT !.status = IF r.ok THEN 200 ELSE 500,
                                    !.rows = r.rows]
    /\ UNCHANGED <<vars, retryQ, postReq, conv, srt, ops, sel, hls>>

NextList == ListRoute

SpecList == InitList /\ [][NextList]_<<vars, sideVars>>

Min(a, b) == IF a <= b THEN a ELSE b

\* C17: the list route answers with the min(limit, number of rows) rows of
\* highest id, in descending order of id
C17_ListBounded ==
    listReq.status # 0 =>
        LET limit == routeLimit(listReq.query)
            n == Len(listReq.db) IN
          /\ listReq.status = 200
          /\ ~limit.nan
          /\ Len(listReq.rows) = Min(limit.n, n)
          /\ \A k \in 1..Len(listReq.rows) :
               /\ listReq.rows[k].id = n + 1 - k
               /\ listReq.rows[k].status = listReq.db[n + 1 - k]

----------------------------------------------------------------------------
\* POST /: the checks of the submit route, in the order of the code.
\* A JSON value is modelled by what the checks read of it: "missing" (absent
\* or falsy), "string", "number"; a list value is "missing", an "object"
\* without length, or an "array" of items; an item of a list may be null.

MaxQualities == 2
MaxSubtitles == 1

Scalars == {"missing", "string", "number"}

QualityItems ==
    [null : {FALSE}, height : Scalars, bitrate : Scalars]
        \cup {[null |-> TRUE, height |-> "missing", bitrate |-> "missing"]}

SubtitleItems ==
    [null : {FALSE}, url : {"missing", "string"},
     language : {"missing", "string"}]
        \cup {[null |-> TRUE, url |-> "missing", language |-> "missing"]}

ListValues(Items, max) ==
    {[kind |-> "missing", items |-> <<>>], [kind |-> "object", items |-> <<>>]}
        \cup {[kind |-> "array", items |-> q] :
                 q \in UNION {[1..k -> Items] : k \in 0..max}}

S3Fields == {"missing", "string"}

S3Values ==
    [given : {TRUE}, bucket : S3Fields, region : S3Fields,
     accessKeyId : S3Fields, secretAccessKey : S3Fields, path : S3Fields]
        \cup {[given |-> FALSE, bucket |-> "missing", region |-> "missing",
               accessKeyId |-> "missing", secretAccessKey |-> "missing",
               path |-> "missing"]}

NoBody ==
    [given |-> FALSE, source |-> "missing",
     qualities |-> [kind |-> "missing", items |-> <<>>],
     s3 |-> [given |-> FALSE, bucket |-> "missing", region |-> "missing",
             accessKeyId |-> "missing", secretAccessKey |-> "missing",
             path |-> "missing"],
     subtitles |-> [kind |-> "missing", items |-> <<>>]]

Bodies ==
    [given : {TRUE}, source : {"missing", "string"},
     qualities : ListValues(QualityItems, MaxQualities),
     s3 : S3Values,
     subtitles : ListValues(SubtitleItems, MaxSubtitles)]
        \cup {NoBody}

\* the body of the loop over params.qualities: "" when the item passes;
\* reading a property of null throws
checkQuality(q) ==
    IF q.null THEN "TypeError"
    ELSE IF q.height = "missing" THEN "provide quality height"
    ELSE IF q.height # "number" THEN "provide quality height as number"
    ELSE IF q.bitrate = "missing" THEN "provide quality bitrate"
    ELSE IF q.bitrate # "number" THEN "provide quality bitrate as number"
    ELSE ""

RECURSIVE checkQualities(_)
checkQualities(items) ==
    IF items = <<>> THEN ""
    ELSE IF checkQuality(Head(items)) # "" THEN checkQuality(Head(items))
    ELSE checkQualities(Tail(items))

\* the body of the loop over params.subtitles
checkSubtitle(u) ==
    IF u.null THEN "TypeError"
    ELSE IF u.url = "missing" THEN "provide subtitle url"
    ELSE IF u.language = "missing" THEN "provide subtitle language"
    ELSE ""

RECURSIVE checkSubtitles(_)
checkSubtitles(items) ==
    IF items = <<>> THEN ""
    ELSE IF checkSubtitle(Head(items)) # "" THEN checkSubtitle(Head(items))
    ELSE checkSubtitles(Tail(items))

\* what the handler did: status 0 when it threw before answering
Answer(status, error, pushed) ==
    [status |-> status, error |-> error, pushed |-> pushed]

Bad(msg) == Answer(400, msg, FALSE)

Thrown == Answer(0, "TypeError", FALSE)

\* the loop over params.subtitles, which is [] when the field is falsy;
\* `for ... of` over an object that is no list throws
postSubtitles(b) ==
    IF b.subtitles.kind = "object" THEN Thrown
    ELSE IF checkSubtitles(b.subtitles.items) = "TypeError" THEN Thrown
    ELSE IF checkSubtitles(b.subtitles.items) # ""
         THEN Bad(checkSubtitles(b.subtitles.items))
    ELSE Answer(200, "", TRUE)

postS3(b) ==
    IF ~b.s3.given THEN Bad("provide s3")
    ELSE IF b.s3.bucket = "missing" THEN Bad("provide s3 bucket")
    ELSE IF b.s3.region = "missing" THEN Bad("provide s3 region")
    ELSE IF b.s3.accessKeyId = "missing" THEN Bad("provide s3 accessKeyId")
    ELSE IF b.s3.secretAccessKey = "missing"
         THEN Bad("provide s3 secretAccessKey")
    ELSE IF b.s3.path = "missing" THEN Bad("provide s3 path")
    ELSE postSubtitles(b)

\* app.post("/"): the first check that fails answers 400; queue.push is
\* reached after the last one
postRoute(b) ==
    IF ~b.given THEN Bad("Invalid params")
    ELSE IF b.source = "missing" THEN Bad("provide source")
    ELSE IF b.qualities.kind = "missing" THEN Bad("provide qualities")
    ELSE IF b.qualities.kind = "object" \/ b.qualities.items = <<>>
         THEN Bad("provide at least one quality")
    ELSE IF checkQualities(b.qualities.items) = "TypeError" THEN Thrown
    ELSE IF checkQualities(b.qualities.items) # ""
         THEN Bad(checkQualities(b.qualities.items))
    ELSE postS3(b)

InitPost ==
    /\ QueueIdle
    /\ retryQ = "idle" /\ listReq = "idle" /\ conv = "idle" /\ srt = "idle"
    /\ ops = "idle" /\ sel = "idle" /\ hls = "idle"
    /\ \E b \in Bodies :
         postReq = [body |-> b, answered |-> FALSE, answer |-> Answer(0, "", FALSE)]

PostRoute ==
    /\ ~postReq.answered
    /\ postReq' = [postReq EXCEPT !.answered = TRUE,
                                  !.answer = postRoute(postReq.body)]
    /\ UNCHANGED <<vars, retryQ, listReq, conv, srt, ops, sel, hls>>

NextPost == PostRoute

SpecPost == InitPost /\ [][NextPost]_<<vars, sideVars>>

\* every check of the route as (message, the field is missing or invalid), in
\* the order of the code; a null item has none of its fields
Check(msg, bad) == [msg |-> msg, bad |-> bad]

QualityChecks(items) ==
    [k \in 1..(4 * Len(items)) |->
        LET q == items[((k - 1) \div 4) + 1] IN
          CASE (k - 1) % 4 = 0 ->
                 Check("provide quality height", q.height = "missing")
            [] (k - 1) % 4 = 1 ->
                 Check("provide quality height as number", q.height # "number")
            [] (k - 1) % 4 = 2 ->
                 Check("provide quality bitrate", q.bitrate = "missing")
            [] OTHER ->
                 Check("provide quality bitrate as number",
                       q.bitrate # "number")]

SubtitleChecks(items) ==
    [k \in 1..(2 * Len(items)) |->
        LET u == items[((k - 1) \div 2) + 1] IN
          IF (k - 1) % 2 = 0
          THEN Check("provide subtitle url", u.url = "missing")
          ELSE Check("provide subtitle language", u.language = "missing")]

Checks(b) ==
    << Check("Invalid params", ~b.given),
       Check("provide source", b.source = "missing"),
       Check("provide qualities", b.qualities.kind = "missing"),
       Check("provide at least one quality", b.qualities.items = <<>>) >>
    \o QualityChecks(b.qualities.items)
    \o << Check("provide s3", ~b.s3.given),
          Check("provide s3 bucket", b.s3.bucket = "missing"),
          Check("provide s3 region", b.s3.region = "missing"),
          Check("provide s3 accessKeyId", b.s3.accessKeyId = "missing"),
          Check("provide s3 secretAccessKey", b.s3.secretAccessKey = "missing"),
          Check("provide s3 path", b.s3.path = "missing") >>
    \o SubtitleChecks(b.subtitles.items)

FirstBad(cs) ==
    IF \E k \in 1..Len(cs) : cs[k].bad
    THEN cs[CHOOSE k \in 1..Len(cs) :
                cs[k].bad /\ \A j \in 1..(k - 1) : ~cs[j].bad].msg
    ELSE ""

\* C18: a submission with a missing or invalid field is answered 400 with
\* the message of the first such field in check order and is not pushed; a
\* submission without any is pushed and answered 200
C18_InvalidIs400 ==
    postReq.answered =>
        LET first == FirstBad(Checks(postReq.body)) IN
          IF first = "" /\ postReq.body.subtitles.kind # "object"
          THEN postReq.answer = Answer(200, "", TRUE)
          ELSE /\ postReq.answer.status = 400
               /\ ~postReq.answer.pushed
               /\ first # "" => postReq.answer.error = first

\* the same for the submissions whose lists are lists of objects
C18_WellFormedOnly ==
    /\ postReq.answered
    /\ postReq.body.subtitles.kind # "object"
    /\ \A k \in 1..Len(postReq.body.qualities.items) :
         ~postReq.body.qualities.items[k].null
    /\ \A k \in 1..Len(postReq.body.subtitles.items) :
         ~postReq.body.subtitles.items[k].null
    => LET first == FirstBad(Checks(postReq.body)) IN
         postReq.answer = IF first = "" THEN Answer(200, "", TRUE)
                          ELSE Bad(first)


----------------------------------------------------------------------------
\* One run of the converter in its isolated process (converter.ts: main,
\* converter, runPromises and the operations they await).  An action is the
\* code that runs on one event: a download, an encode, a probe, the packager
\* or an upload returning.

MaxAudioTracks == 2
MaxConvSubtitles == 1
MaxConvQualities == 2

\* heights asked for, and the height of the source's tallest video track
\* (0: the source has no video track)
QualityHeights == {360, 720}
SourceHeights == {0, 480, 720}

\* audioTrack.tags?.language || "und"
AudioLangs == {"en", "und"}

\* the extension of a subtitle url's pathname ("": there is none)
SubtitleExts == {"vtt", "txt", ""}
ALL_SUBTITLE_EXT == {"srt", "vtt", "webvtt"}

ExtraUploads == {{}, {"ENCODED_AUDIOS"}, {"ENCODED_VIDEOS"}}

SeqsUpTo(S, n) == UNION {[1..k -> S] : k \in 0..n}

\* the request: qualities (their heights), subtitles (their extensions)
ConvInputs ==
    [qualities : SeqsUpTo(QualityHeights, MaxConvQualities),
     subtitles : SeqsUpTo(SubtitleExts, MaxConvSubtitles),
     extraUploads : ExtraUploads]

\* what ffprobe answers: the reference stream's height, the audio streams
Probes ==
    [height : SourceHeights, audio : SeqsUpTo(AudioLangs, MaxAudioTracks)]

NoProbe == [height |-> 0, audio |-> <<>>]

\* the same with `<` for `<=`
RECURSIVE filterQualitiesStrict(_, _)
filterQualitiesStrict(qualities, height) ==
    IF qualities = <<>> THEN <<>>
    ELSE IF Head(qualities) < height
         THEN <<Head(qualities)>>
                  \o filterQualitiesStrict(Tail(qualities), height)
         ELSE filterQualitiesStrict(Tail(qualities), height)

\* Array.prototype.filter with the test `height <= (videoTrack.height || 0)`
RECURSIVE filterQualities(_, _)
filterQualities(qualities, height) ==
    IF qualities = <<>> THEN <<>>
    ELSE IF Head(qualities) <= height
         THEN <<Head(qualities)>> \o filterQualities(Tail(qualities), height)
         ELSE filterQualities(Tail(qualities), height)

filteredQualities(c) == filterQualities(c.in.qualities, c.probe.height)

\* only the check of the missing extension
unsupportedMissingOnly(ext) == ext = ""

\* downloadSubtitle returns null before any await for these
unsupported(ext) == ext = "" \/ ext \notin ALL_SUBTITLE_EXT

\* allPromises: one task per audio track, per subtitle, per kept quality
allPromises(c) ==
    {<<"audio", k>> : k \in 1..Len(c.probe.audio)}
        \cup {<<"subtitle", k>> : k \in 1..Len(c.in.subtitles)}
        \cup {<<"video", k>> : k \in 1..Len(filteredQualities(c))}

\* A retried operation: the attempts counter of the call in flight, the
\* state of the promise its caller awaits, and lost: that promise can no
\* longer settle whatever the calls still in flight do.
NewOp == [attempts |-> 0, state |-> "running", lost |-> FALSE]

\* what an event does to an operation; unhandled: a promise nobody awaits
\* was rejected
Step(op, unhandled) == [op |-> op, unhandled |-> unhandled]

\* the last call of a chain failed: MAX_RETRY = 0 gives a plain rejection,
\* otherwise the rejection is thrown by `await` inside the emitter's async
\* listener of the call before, whose promise is then never settled
encodeGivesUp(op) ==
    IF op.attempts = 0 THEN Step([op EXCEPT !.state = "rejected"], FALSE)
    ELSE Step([op EXCEPT !.state = "unsettled"], TRUE)

\* convertVideo: ffmpeg's "end" and "error" events
convertVideoEnd(op) == Step([op EXCEPT !.state = "resolved"], FALSE)

convertVideoError(op) ==
    IF op.attempts < MAX_RETRY
    THEN Step([op EXCEPT !.attempts = @ + 1], FALSE)
    ELSE encodeGivesUp(op)

\* extractAudioTrack: the same two listeners
extractAudioTrackEnd(op) == Step([op EXCEPT !.state = "resolved"], FALSE)

extractAudioTrackError(op) ==
    IF op.attempts < MAX_RETRY
    THEN Step([op EXCEPT !.attempts = @ + 1], FALSE)
    ELSE encodeGivesUp(op)

\* downloadWorker: the writer's "finish"
downloadFinish(op) ==
    Step([op EXCEPT !.state = IF op.lost THEN "unsettled" ELSE "resolved"],
         FALSE)

\* downloadWorker's catch: axios threw, or the writer's promise was rejected
downloadCatch(op) ==
    IF op.attempts < MAX_RETRY
    THEN Step([op EXCEPT !.attempts = @ + 1], FALSE)
    ELSE IF op.lost THEN Step([op EXCEPT !.state = "unsettled"], TRUE)
         ELSE Step([op EXCEPT !.state = "rejected"], FALSE)

\* downloadWorker: the writer's "error" listener.  Below MAX_RETRY it calls
\* downloadWorker again and returns: the promise of this call stays pending
downloadWriterError(op) ==
    IF op.attempts < MAX_RETRY
    THEN Step([op EXCEPT !.attempts = @ + 1, !.lost = TRUE], FALSE)
    ELSE downloadCatch(op)

\* uploadWorker: client.send returned
uploadSent(op) == Step([op EXCEPT !.state = "resolved"], FALSE)

\* uploadWorker's catch: retry below MAX_RETRY, else throw
uploadCatch(op) ==
    IF op.attempts < MAX_RETRY
    THEN Step([op EXCEPT !.attempts = @ + 1], FALSE)
    ELSE Step([op EXCEPT !.state = "rejected"], FALSE)

\* when a chain of calls has ended its counters are gone with it
forget(op) ==
    IF op.state = "running" THEN op
    ELSE [op EXCEPT !.attempts = 0, !.lost = FALSE]

Skipped == [NewOp EXCEPT !.state = "skipped"]

\* the heights of the encoded videos, in the order of the request
videoHeights(c) == filteredQualities(c)

\* hlsFy: the folder of video k is its height, or `${i}-${height}` when a
\* folder of that name is there already
videoFolder(c, k) ==
    LET h == videoHeights(c)[k] IN
      IF \E j \in 1..(k - 1) : videoHeights(c)[j] = h
      THEN ToString(k - 1) \o "-" \o ToString(h)
      ELSE ToString(h)

\* the subtitles array handed to hlsFy: a request is pushed when its
\* downloadSubtitle returned a path
subtitles(c) ==
    {k \in 1..Len(c.in.subtitles) :
       /\ <<"subtitle", k>> \in DOMAIN c.tasks
       /\ c.tasks[<<"subtitle", k>>].state = "resolved"}

\* hlsFy: the folder of the first subtitle is "subtitles", that of the
\* i-th one after it `subtitles-${i}`; the names used depend on how many
\* subtitles there are, not on their order
subtitleFolder(c, k) ==
    LET i == Cardinality({j \in subtitles(c) : j < k}) IN
      IF i = 0 THEN "subtitles" ELSE "subtitles-" \o ToString(i)

\* the files of the bundle that uploadFolder pushes: the master playlist,
\* the playlist of every video and of every subtitle
bundleObjects(c) ==
    {<<"bundle", k>> : k \in 0..Len(videoHeights(c))}
        \cup {<<"text", k>> : k \in subtitles(c)}

\* the extra uploads of lines 282-318
extraObjects(c) ==
    (IF "ENCODED_AUDIOS" \in c.in.extraUploads
     THEN {<<"audio", k>> : k \in 1..Len(c.probe.audio)} ELSE {})
      \cup (IF "ENCODED_VIDEOS" \in c.in.extraUploads
            THEN {<<"video", k>> : k \in 1..Len(videoHeights(c))} ELSE {})

\* uploadWorker's key, path.join(s3.path, subPath || "", file), as the pair
\* <<subPath, file>>
uploadKey(c, o) ==
    CASE o[1] = "thumbnail" -> <<"thumbnails", "thumbnails_001.jpg">>
      [] o[1] = "bundle" /\ o[2] = 0 -> <<"", "playlist.m3u8">>
      [] o[1] = "bundle" /\ o[2] > 0 -> <<videoFolder(c, o[2]), "video.m3u8">>
      [] o[1] = "text" -> <<subtitleFolder(c, o[2]), "subtitles.m3u8">>
      [] o[1] = "audio" -> <<c.probe.audio[o[2]], "encoded_audio.mp4">>
      [] o[1] = "video" ->
           <<ToString(videoHeights(c)[o[2]]), "encoded_video.mp4">>

\* the key reported in encodedAudios for audio track k
encodedAudioKey(c, k) == <<c.probe.audio[k], "encoded_audio.mp4">>

\* PutObject: the object at the key is replaced
putObject(store, key, from) ==
    {s \in store : s.key # key} \cup {[key |-> key, from |-> from]}

\* fs.rmSync(path, {recursive, force})
deleteFolder(c) == [c EXCEPT !.folder = FALSE]

\* the process ends with this code
convExit(c, code) == [c EXCEPT !.stage = "exited", !.code = code]

\* main()'s catch: log, process.exit(1)
mainCatch(c, error) == convExit([c EXCEPT !.error = error], 1)

\* runPromises' catch: onError (deleteFolder(baseFolder)), process.exit(1)
runPromisesCatch(c) ==
    convExit([deleteFolder(c) EXCEPT !.error = "track task"], 1)

\* a rejection nobody handles: node ends the process with code 1, unless a
\* listener for unhandledRejection is installed (the telemetry SDK loaded by
\* instrument.js installs one that warns), and then the run goes on
unhandledRejection(c) ==
    {convExit([c EXCEPT !.error = "unhandled rejection"], 1), c}

\* the end of converter() and of main(): deleteFolder, the result is
\* written, the process ends with code 0
convReturn(c) == convExit([deleteFolder(c) EXCEPT !.wrote = TRUE], 0)

\* uploadQueue.push for each object; converter then awaits drained()
pushUploads(c, objs, stage) ==
    [c EXCEPT !.uploads = [o \in objs |-> NewOp],
              !.pushed = @ \cup objs,
              !.did = @ \cup {"upload"},
              !.stage = stage]

\* lines 261-331: the extra uploads, if asked for and if there is any
extraUploads(c) ==
    IF c.in.extraUploads = {} THEN convReturn(c)
    ELSE LET r == [c EXCEPT !.encodedAudios =
                       IF "ENCODED_AUDIOS" \in c.in.extraUploads
                       THEN [k \in 1..Len(c.probe.audio) |->
                                 encodedAudioKey(c, k)]
                       ELSE <<>>]
         IN IF extraObjects(c) = {} THEN convReturn(r)
            ELSE pushUploads(r, extraObjects(c), "extra")

\* uploadQueue.drained() resolves: what converter() does next
afterDrained(c) ==
    CASE c.stage = "thumbnailsUpload" ->
           [c EXCEPT !.stage = "packaging", !.did = @ \cup {"package"}]
      [] c.stage = "upload" -> extraUploads(c)
      [] c.stage = "extra" -> convReturn(c)

\* an upload has ended: drained() resolves when it was the last, whether or
\* not it was stored
uploadEnded(c, o) ==
    LET r == [c EXCEPT !.uploads =
                         [p \in DOMAIN c.uploads \ {o} |-> c.uploads[p]]] IN
      IF DOMAIN r.uploads = {} THEN afterDrained(r) ELSE r

\* the track tasks are started without the check of the filtered list
afterProbeUnchecked(c) ==
    IF c.probe.height = 0 THEN mainCatch(c, "no video tracks found")
    ELSE [c EXCEPT !.stage = "tracks",
                   !.did = @ \cup {"encode"},
                   !.tasks = [t \in allPromises(c) |->
                                IF t[1] = "subtitle"
                                   /\ unsupported(c.in.subtitles[t[2]])
                                THEN Skipped ELSE NewOp]]

\* after the probe: the two checks, then the track tasks are started
afterProbe(c) ==
    IF c.probe.height = 0 THEN mainCatch(c, "no video tracks found")
    ELSE IF filteredQualities(c) = <<>> THEN mainCatch(c, "no quality found")
    ELSE [c EXCEPT !.stage = "tracks",
                   !.did = @ \cup {"encode"},
                   !.tasks = [t \in allPromises(c) |->
                                IF t[1] = "subtitle"
                                   /\ unsupported(c.in.subtitles[t[2]])
                                THEN Skipped ELSE NewOp]]

\* converter() goes on as soon as one task has resolved
tracksSettledOnFirst(c) ==
    IF \E t \in DOMAIN c.tasks : c.tasks[t].state = "resolved"
    THEN [c EXCEPT !.stage = "thumbnails"]
    ELSE c

\* Promise.all resolves when every task has: converter() goes on to the
\* thumbnails
tracksSettled(c) ==
    IF \A t \in DOMAIN c.tasks : c.tasks[t].state \in {"resolved", "skipped"}
    THEN [c EXCEPT !.stage = "thumbnails"]
    ELSE c

\* the events an operation in flight can meet, by the function that runs it
events(kind, op) ==
    CASE kind = "video" -> {convertVideoEnd(op), convertVideoError(op)}
      [] kind = "audio" -> {extractAudioTrackEnd(op), extractAudioTrackError(op)}
      [] kind = "download" ->
           {downloadFinish(op), downloadCatch(op), downloadWriterError(op)}
      [] kind = "upload" -> {uploadSent(op), uploadCatch(op)}

\* how an operation can stand when its last call has ended: every chain of
\* events from op on
RECURSIVE outcomes(_, _)
outcomes(kind, op) ==
    UNION {IF s.op.state = "running" THEN outcomes(kind, s.op)
           ELSE {Step(forget(s.op), s.unhandled)} : s \in events(kind, op)}

\* the function that runs a track task, or the source download
kindOf(id) ==
    CASE id[1] = "audio" -> "audio"
      [] id[1] = "video" -> "video"
      [] id[1] \in {"source", "subtitle"} -> "download"

\* the operations in flight: the source download, then the track tasks
InFlightOps(c) ==
    CASE c.stage = "download" ->
           IF c.source.state = "running" THEN {<<"source", 0>>} ELSE {}
      [] c.stage = "tracks" ->
           {t \in DOMAIN c.tasks : c.tasks[t].state = "running"}
      [] OTHER -> {}

withOp(c, id, op) ==
    IF id[1] = "source" THEN [c EXCEPT !.source = op]
    ELSE [c EXCEPT !.tasks[id] = op]

\* the last call of operation id has ended as `out` says: what the run does
afterOp(c, id, out) ==
    LET r == withOp(c, id, out.op) IN
      IF out.op.state = "rejected"
      THEN {IF id[1] = "source" THEN mainCatch(r, "download")
            ELSE runPromisesCatch(r)}
      ELSE IF out.unhandled THEN unhandledRejection(r)
      ELSE IF out.op.state = "unsettled" THEN {r}
      ELSE IF id[1] = "source" THEN {[r EXCEPT !.stage = "type"]}
      ELSE {tracksSettled(r)}

notConv == <<vars, retryQ, listReq, postReq, srt, ops, sel, hls>>

InitConv ==
    /\ QueueIdle
    /\ retryQ = "idle" /\ listReq = "idle" /\ postReq = "idle"
    /\ srt = "idle" /\ ops = "idle" /\ sel = "idle" /\ hls = "idle"
    /\ \E in \in ConvInputs :
         conv = [in |-> in, probe |-> NoProbe, stage |-> "start",
                 folder |-> FALSE, source |-> NewOp,
                 tasks |-> [t \in {} |-> NewOp],
                 uploads |-> [o \in {} |-> NewOp],
                 pushed |-> {}, failed |-> {}, store |-> {}, did |-> {},
                 encodedAudios |-> <<>>,
                 code |-> 0, wrote |-> FALSE, error |-> ""]

\* converter(): mkdtempSync(baseFolder), then the download is awaited
ConvStart ==
    /\ conv.stage = "start"
    /\ conv' = [conv EXCEPT !.stage = "download", !.folder = TRUE]
    /\ UNCHANGED notConv

\* operation id resolves the promise its caller awaits
ConvOpDone(id) ==
    /\ id \in InFlightOps(conv)
    /\ \E out \in outcomes(kindOf(id), NewOp) :
         /\ out.op.state = "resolved"
         /\ conv' \in afterOp(conv, id, out)
    /\ UNCHANGED notConv

\* operation id ends without resolving it: rejected, or left pending
ConvOpFails(id) ==
    /\ id \in InFlightOps(conv)
    /\ \E out \in outcomes(kindOf(id), NewOp) :
         /\ out.op.state # "resolved"
         /\ conv' \in afterOp(conv, id, out)
    /\ UNCHANGED notConv

\* the source download
ConvSourceDone == conv.stage = "download" /\ ConvOpDone(<<"source", 0>>)

ConvSourceFails == conv.stage = "download" /\ ConvOpFails(<<"source", 0>>)

\* an awaited call outside runPromises resolves: file type, probe,
\* thumbnails, packager
ConvStageDone ==
    /\ \/ /\ conv.stage = "type"
          /\ conv' = [conv EXCEPT !.stage = "probe"]
       \/ /\ conv.stage = "probe"
          /\ \E p \in Probes : conv' = afterProbe([conv EXCEPT !.probe = p])
       \/ /\ conv.stage = "thumbnails"
          /\ conv' = pushUploads(conv, {<<"thumbnail", 1>>},
                                 "thumbnailsUpload")
       \/ /\ conv.stage = "packaging"
          /\ conv' = pushUploads(conv, bundleObjects(conv), "upload")
    /\ UNCHANGED notConv

\* such a call rejects: the error reaches main()
ConvStageFails ==
    /\ conv.stage \in {"type", "probe", "thumbnails", "packaging"}
    /\ conv' = mainCatch(conv, conv.stage)
    /\ UNCHANGED notConv

\* a track task resolves; Promise.all resolves with the last one
ConvTaskDone ==
    /\ conv.stage = "tracks"
    /\ \E t \in InFlightOps(conv) : ConvOpDone(t)

\* a track task ends otherwise
ConvTaskFails ==
    /\ conv.stage = "tracks"
    /\ \E t \in InFlightOps(conv) : ConvOpFails(t)

\* main() is suspended on a promise that cannot settle and nothing is in
\* flight: the event loop is empty, node ends the process with code 0
ConvLoopEmpty ==
    /\ conv.stage \in {"download", "tracks"}
    /\ InFlightOps(conv) = {}
    /\ conv' = convExit(conv, 0)
    /\ UNCHANGED notConv

\* an upload's last call returns: the object is stored
ConvUploadDone ==
    /\ \E o \in DOMAIN conv.uploads :
         \E out \in outcomes("upload", conv.uploads[o]) :
           /\ out.op.state = "resolved"
           /\ conv' = uploadEnded(
                        [conv EXCEPT !.store =
                             putObject(@, uploadKey(conv, o), o)], o)
    /\ UNCHANGED notConv

\* an upload's last call throws: the promise of its push is rejected
ConvUploadFails ==
    /\ \E o \in DOMAIN conv.uploads :
         \E out \in outcomes("upload", conv.uploads[o]) :
           /\ out.op.state = "rejected"
           /\ conv' = uploadEnded([conv EXCEPT !.failed = @ \cup {o}], o)
    /\ UNCHANGED notConv

NextConv ==
    \/ ConvStart
    \/ ConvSourceDone
    \/ ConvSourceFails
    \/ ConvStageDone
    \/ ConvStageFails
    \/ ConvTaskDone
    \/ ConvTaskFails
    \/ ConvLoopEmpty
    \/ ConvUploadDone
    \/ ConvUploadFails

SpecConv == InitConv /\ [][NextConv]_<<vars, sideVars>>

\* C20: when the run has ended, with code 0 or after an error at any stage,
\* the working directory is gone
C20_FolderGoneAtExit ==
    conv.stage = "exited" => ~conv.folder

\* what the queue's worker makes of the run: done when the process ended
\* with code 0 and the result file is there to parse, failed otherwise
convJob(c) == IF c.code = 0 /\ c.wrote THEN "done" ELSE "failed"

\* C21: when the run has ended, an object whose upload was given up after
\* the last attempt means a failed job, and the job is done only if every
\* object pushed to the upload sub-queue was stored
C21_UploadFailureFailsJob ==
    conv.stage = "exited" =>
        /\ conv.failed # {} => convJob(conv) = "failed"
        /\ convJob(conv) = "done" =>
             \A o \in conv.pushed :
               o \notin conv.failed
                 /\ \E s \in conv.store : s.key = uploadKey(conv, o)

\* the run is past the probe (or has ended before it)
Probed(c) == c.stage \notin {"start", "download", "type", "probe"}

\* C22: once the probe has answered and no requested quality is at most as
\* high as the reference stream, the run has ended, the job is failed, and
\* no encode, no packaging and no upload was started
C22_NoQualityFits ==
    Probed(conv)
        /\ (\A k \in 1..Len(conv.in.qualities) :
              conv.in.qualities[k] > conv.probe.height)
    => /\ conv.stage = "exited"
       /\ convJob(conv) = "failed"
       /\ conv.did = {}
       /\ DOMAIN conv.tasks = {}
       /\ conv.pushed = {} /\ conv.store = {}

C22_Witness ==
    /\ conv.stage = "exited"
    /\ conv.error = "no quality found"
    /\ conv.in.qualities = <<720, 720>>
    /\ conv.probe.height = 480
    /\ conv.probe.audio # <<>>
    /\ conv.in.subtitles = <<"vtt">>

\* C23: a done job that asked for ENCODED_AUDIOS reports one key per audio
\* track, {lang}/encoded_audio.mp4, and each reported key names a stored
\* object of its own, written from that track's encode
C23_ExtraAudioObjects ==
    conv.stage = "exited" /\ convJob(conv) = "done"
        /\ "ENCODED_AUDIOS" \in conv.in.extraUploads
    => LET N == Len(conv.probe.audio) IN
         /\ Len(conv.encodedAudios) = N
         /\ \A k \in 1..N :
              /\ conv.encodedAudios[k]
                     = <<conv.probe.audio[k], "encoded_audio.mp4">>
              /\ \E s \in conv.store :
                   s.key = conv.encodedAudios[k] /\ s.from = <<"audio", k>>
         /\ Cardinality({s \in conv.store : s.from[1] = "audio"}) = N

\* the positions of the request whose height fits the source
Kept(qualities, height) ==
    {k \in 1..Len(qualities) : qualities[k] <= height}

\* the j-th smallest element of a set of numbers
Nth(S, j) == CHOOSE k \in S : Cardinality({i \in S : i < k}) = j - 1

\* C24: the filtered list holds exactly the requested qualities whose height
\* is at most the reference height, in the order of the request; filtering
\* it again gives the same list; one video task is started per entry
C24_FilterKeepsFitting ==
    Probed(conv) =>
        LET q == conv.in.qualities
            h == conv.probe.height
            f == filteredQualities(conv)
        IN /\ Len(f) = Cardinality(Kept(q, h))
           /\ \A j \in 1..Len(f) : f[j] = q[Nth(Kept(q, h), j)]
           /\ filterQualities(f, h) = f
           /\ conv.stage = "tracks" =>
                {t \in DOMAIN conv.tasks : t[1] = "video"}
                    = {<<"video", j>> : j \in 1..Len(f)}

C24_Witness ==
    /\ conv.stage = "tracks"
    /\ conv.in.qualities = <<720, 360>>
    /\ conv.probe.height = 720
    /\ filteredQualities(conv) = <<720, 360>>

\* C26: the packager has been invoked only if every track task of the run
\* has resolved (a skipped subtitle has returned); and while the tasks run,
\* each of them can be the next to end, whatever its siblings have done
C26_PackagingAfterAllTasks ==
    /\ "package" \in conv.did =>
         /\ DOMAIN conv.tasks = allPromises(conv)
         /\ \A t \in DOMAIN conv.tasks :
              conv.tasks[t].state \in {"resolved", "skipped"}
    /\ conv.stage = "tracks" =>
         \A t \in DOMAIN conv.tasks :
           conv.tasks[t].state = "running" => ENABLED ConvOpDone(t)

C26_Witness ==
    /\ conv.stage = "packaging"
    /\ "package" \in conv.did
    /\ Len(conv.probe.audio) = MaxAudioTracks
    /\ conv.in.subtitles = <<"vtt">>
    /\ Len(filteredQualities(conv)) = MaxConvQualities
    /\ \A t \in allPromises(conv) : conv.tasks[t].state = "resolved"

\* a track task of the run has failed: its operation was given up after the
\* last attempt, or ended without settling the task's promise
TaskFailed(c) ==
    \E t \in DOMAIN c.tasks : c.tasks[t].state \in {"rejected", "unsettled"}

\* C27: a run in which a track task failed never invokes the packager nor
\* pushes an upload, and when it has ended the working directory is deleted,
\* the exit code is not 0 and the job is failed
C27_TaskFailureAborts ==
    TaskFailed(conv) =>
        /\ "package" \notin conv.did
        /\ conv.pushed = {}
        /\ conv.stage = "exited" =>
             /\ ~conv.folder
             /\ conv.code # 0
             /\ convJob(conv) = "failed"

\* every call the run waits for returns: a step of the run that can be
\* taken is taken
SpecConvFair == SpecConv /\ WF_<<vars, sideVars>>(NextConv)

\* C28: every run of the converter ends, and the download of the source,
\* once started, resolves or rejects the promise converter() awaits
C28_RunsToCompletion ==
    /\ (conv.stage # "exited") ~> (conv.stage = "exited")
    /\ (conv.stage = "download")
         ~> (conv.source.state \in {"resolved", "rejected"})

C38_NothingBeforePackaging ==
    /\ conv.store # {} => conv.pushed \cap bundleObjects(conv) # {}
    /\ conv.error = "packaging" => conv.store = {}

----------------------------------------------------------------------------
\* The retried operations of the converter call by call: convertVideo,
\* extractAudioTrack, uploadWorker and downloadWorker.  Each step is one
\* event of the call in flight; several operations run side by side.

MaxOps == 2

OpKinds == {"video", "audio", "upload", "download"}

notOps == <<vars, retryQ, listReq, postReq, conv, srt, sel, hls>>

\* last: the event of the step just taken on this operation; unhandled: a
\* rejection that nobody awaits was raised by it
InitOps ==
    /\ QueueIdle
    /\ retryQ = "idle" /\ listReq = "idle" /\ postReq = "idle"
    /\ conv = "idle" /\ srt = "idle" /\ sel = "idle" /\ hls = "idle"
    /\ \E n \in 1..MaxOps : \E kinds \in [1..n -> OpKinds] :
         ops = [i \in 1..n |->
                  [kind |-> kinds[i], op |-> NewOp, last |-> "none",
                   unhandled |-> FALSE]]

opsAfter(i, step, event) ==
    [k \in DOMAIN ops |->
       IF k = i
       THEN [ops[i] EXCEPT !.op = step.op, !.last = event,
                           !.unhandled = step.unhandled]
       ELSE [ops[k] EXCEPT !.last = "none"]]

\* ffmpeg's "end", the writer's "finish", client.send returning
OpsEnd ==
    /\ \E i \in DOMAIN ops :
         /\ ops[i].op.state = "running"
         /\ ops' = opsAfter(i,
                     CASE ops[i].kind = "video" -> convertVideoEnd(ops[i].op)
                       [] ops[i].kind = "audio" ->
                            extractAudioTrackEnd(ops[i].op)
                       [] ops[i].kind = "upload" -> uploadSent(ops[i].op)
                       [] ops[i].kind = "download" ->
                            downloadFinish(ops[i].op),
                     "end")
    /\ UNCHANGED notOps

\* ffmpeg's "error", axios or client.send throwing
OpsError ==
    /\ \E i \in DOMAIN ops :
         /\ ops[i].op.state = "running"
         /\ ops' = opsAfter(i,
                     CASE ops[i].kind = "video" -> convertVideoError(ops[i].op)
                       [] ops[i].kind = "audio" ->
                            extractAudioTrackError(ops[i].op)
                       [] ops[i].kind = "upload" -> uploadCatch(ops[i].op)
                       [] ops[i].kind = "download" ->
                            downloadCatch(ops[i].op),
                     "error")
    /\ UNCHANGED notOps

\* the writer of a download emits "error"
OpsWriterError ==
    /\ \E i \in DOMAIN ops :
         /\ ops[i].op.state = "running"
         /\ ops[i].kind = "download"
         /\ ops' = opsAfter(i, downloadWriterError(ops[i].op), "writer")
    /\ UNCHANGED notOps

NextOps ==
    \/ OpsEnd
    \/ OpsError
    \/ OpsWriterError

SpecOps == InitOps /\ [][NextOps]_<<vars, sideVars>>

\* C29: no operation is called with a counter above MAX_RETRY and it is
\* given up only when the call with counter MAX_RETRY failed; a call that
\* succeeds resolves the promise the caller awaits, and the failure of the
\* last call rejects it, no rejection being left unhandled
C29_BoundedRetryReports ==
    \A i \in DOMAIN ops :
      /\ ops[i].op.attempts <= MAX_RETRY
      /\ ops[i].last = "end" => ops[i].op.state = "resolved"
      /\ (ops[i].last \in {"error", "writer"}
            /\ ops[i].op.state # "running") =>
           /\ ops[i].op.attempts = MAX_RETRY
           /\ ops[i].op.state = "rejected"
           /\ ~ops[i].unhandled

----------------------------------------------------------------------------
\* srtToVtt (the subtitle converter of the variant in unnamed/part_006): the
\* file as the list of lines that srt.split("\n") gives, the text written as
\* the list of its cues after the WEBVTT header.

MaxCues == 2

\* a line is blank (one of blankLine), a timing line (it includes " --> ")
\* or any other line; a timestamp is its four numbers and the separator
\* before the milliseconds
BlankLine == <<"blank">>
TextLine(text) == <<"text", text>>
TimeLine(start, end) == <<"time", start, end>>

SrtTime(s, ms) == [h |-> 0, m |-> 0, s |-> s, ms |-> ms, sep |-> ","]

\* the cue blocks a file is written from: its counter line, its timing line
\* and its text lines
SrtCues ==
    [index : {"1", "7"},
     start : {SrtTime(1, 0)}, end : {SrtTime(2, 500), SrtTime(3, 5)},
     texts : {<<"a">>, <<"a", "b">>}]

\* a file: cue blocks, the number of blank lines after each block but the
\* last, and what follows the last text line (0: the file ends there, 1: a
\* line break, 2: a line break and a blank line)
SrtFiles ==
    [cues : SeqsUpTo(SrtCues, MaxCues), gap : {1, 2}, tail : {0, 1, 2}]

RECURSIVE Blanks(_)
Blanks(n) == IF n = 0 THEN <<>> ELSE <<BlankLine>> \o Blanks(n - 1)

RECURSIVE TextLines(_)
TextLines(texts) ==
    IF texts = <<>> THEN <<>>
    ELSE <<TextLine(Head(texts))>> \o TextLines(Tail(texts))

BlockLines(cue) ==
    <<TextLine(cue.index), TimeLine(cue.start, cue.end)>>
        \o TextLines(cue.texts)

\* srt.split("\n") of the file's text
RECURSIVE srtLines(_)
srtLines(file) ==
    IF file.cues = <<>> THEN Blanks(IF file.tail = 0 THEN 1 ELSE file.tail)
    ELSE IF Len(file.cues) = 1
         THEN BlockLines(file.cues[1]) \o Blanks(file.tail)
         ELSE BlockLines(file.cues[1]) \o Blanks(file.gap)
                  \o srtLines([file EXCEPT !.cues = Tail(@)])

\* timeSrtToVtt: split at ":" and ",", Number(), padStart, joined with "."
timeSrtToVtt(time) ==
    [h |-> time.h, m |-> time.m, s |-> time.s, ms |-> time.ms, sep |-> "."]

\* the first loop of srtToVtt: a blank line closes the part collected so
\* far; what is collected after the last blank line is not pushed
RECURSIVE srtParts(_, _)
srtParts(lines, allLinesPart) ==
    IF lines = <<>> THEN <<>>
    ELSE IF Head(lines)[1] = "blank"
         THEN <<allLinesPart>> \o srtParts(Tail(lines), <<>>)
         ELSE srtParts(Tail(lines), Append(allLinesPart, Head(lines)))

\* part.findIndex(line => line.includes(" --> ")), 0 when there is none
timeIndex(part) ==
    IF \E k \in 1..Len(part) : part[k][1] = "time"
    THEN CHOOSE k \in 1..Len(part) :
           part[k][1] = "time" /\ \A j \in 1..(k - 1) : part[j][1] # "time"
    ELSE 0

\* the second loop: a part with a timing line gives a cue with id i + 1 (i
\* counts from 0 over all parts), the converted times and the lines after
\* the timing line
RECURSIVE srtCues(_, _)
srtCues(parts, i) ==
    IF i > Len(parts) THEN <<>>
    ELSE IF timeIndex(parts[i]) = 0 THEN srtCues(parts, i + 1)
    ELSE LET part == parts[i]
             t == timeIndex(part)
         IN <<[id |-> i,
               start |-> timeSrtToVtt(part[t][2]),
               end |-> timeSrtToVtt(part[t][3]),
               texts |-> [k \in 1..(Len(part) - t) |-> part[t + k][2]]]>>
                \o srtCues(parts, i + 1)

srtToVtt(lines) == srtCues(srtParts(lines, <<>>), 1)

notSrt == <<vars, retryQ, listReq, postReq, conv, ops, sel, hls>>

InitSrt ==
    /\ QueueIdle
    /\ retryQ = "idle" /\ listReq = "idle" /\ postReq = "idle"
    /\ conv = "idle" /\ ops = "idle" /\ sel = "idle" /\ hls = "idle"
    /\ \E file \in SrtFiles :
         srt = [file |-> file, lines |-> srtLines(file), written |-> FALSE,
                vtt |-> <<>>]

\* srtToVtt reads the file and writes subtitle.vtt
SrtConvert ==
    /\ ~srt.written
    /\ srt' = [srt EXCEPT !.written = TRUE, !.vtt = srtToVtt(srt.lines)]
    /\ UNCHANGED notSrt

NextSrt == SrtConvert

SpecSrt == InitSrt /\ [][NextSrt]_<<vars, sideVars>>

\* C25: the text written for a file of N cue blocks has N cues, in the
\* order of the file, numbered 1..N, each with its two timestamps written
\* with "." before the milliseconds and with its text lines as they were
C25_OneCuePerBlock ==
    srt.written =>
        LET cues == srt.file.cues IN
          /\ Len(srt.vtt) = Len(cues)
          /\ \A k \in 1..Len(cues) :
               k <= Len(srt.vtt) =>
                 /\ srt.vtt[k].id = k
                 /\ srt.vtt[k].start = [cues[k].start EXCEPT !.sep = "."]
                 /\ srt.vtt[k].end = [cues[k].end EXCEPT !.sep = "."]
                 /\ srt.vtt[k].texts = cues[k].texts

----------------------------------------------------------------------------
\* The reference video stream and the size of one encode (converter.ts
\* 118-142, convertVideo): the streams ffprobe lists, in probe order, and one
\* requested quality.

MaxStreams == 2

\* height 0: ffprobe gave no height (the code reads `height || 0`)
Stream(type, name, w, h) ==
    [codec_type |-> type, codec_name |-> name, width |-> w, height |-> h]

StreamKinds ==
    {Stream("video", "h264", 640, 480), Stream("video", "h264", 854, 480),
     Stream("video", "h264", 1280, 720), Stream("video", "mjpeg", 1280, 720),
     Stream("video", "h264", 0, 0), Stream("audio", "aac", 0, 0)}

\* the heights asked for; 481: an odd height passes the route's checks
TrackQualities == {360, 481, 720}

\* Array.prototype.filter, as the list of the positions it keeps
RECURSIVE positionsKept(_, _)
positionsKept(n, keep) ==
    IF n = 0 THEN <<>>
    ELSE positionsKept(n - 1, keep) \o (IF n \in keep THEN <<n>> ELSE <<>>)

\* the filter without the test of the codec
videoTracksWithCovers(streams) ==
    positionsKept(Len(streams),
                  {i \in 1..Len(streams) : streams[i].codec_type = "video"})

\* lines 120-122
videoTracks(streams) ==
    positionsKept(Len(streams),
                  {i \in 1..Len(streams) :
                     /\ streams[i].codec_type = "video"
                     /\ streams[i].codec_name # "mjpeg"})

\* Array.prototype.sort with (a, b) => (b.height || 0) - (a.height || 0):
\* the sort is stable, an element goes behind those that are not lower
RECURSIVE insertTrack(_, _, _)
insertTrack(streams, sorted, i) ==
    IF sorted = <<>> THEN <<i>>
    ELSE IF streams[i].height - streams[Head(sorted)].height > 0
         THEN <<i>> \o sorted
         ELSE <<Head(sorted)>> \o insertTrack(streams, Tail(sorted), i)

RECURSIVE sortTracks(_, _)
sortTracks(streams, tracks) ==
    IF tracks = <<>> THEN <<>>
    ELSE insertTrack(streams,
                     sortTracks(streams, SubSeq(tracks, 1, Len(tracks) - 1)),
                     tracks[Len(tracks)])

\* lines 128-142: the reference stream, then the check of the quality
selectTrack(t) ==
    LET tracks == videoTracks(t.streams) IN
      IF tracks = <<>>
      THEN [t EXCEPT !.stage = "failed", !.error = "no video tracks found"]
      ELSE LET videoTrack == sortTracks(t.streams, tracks)[1] IN
             IF t.quality <= t.streams[videoTrack].height
             THEN [t EXCEPT !.stage = "selected", !.videoTrack = videoTrack]
             ELSE [t EXCEPT !.stage = "failed", !.videoTrack = videoTrack,
                            !.error = "no quality found"]

\* convertVideo: .size(`?x${quality.height}`).  The height goes to the scale
\* filter as it is; fluent-ffmpeg writes the width as trunc(oh*a/2)*2, a
\* being the aspect ratio of the input
videoSize(quality, track) ==
    [w |-> ((quality * track.width) \div (2 * track.height)) * 2,
     h |-> quality]

notTrack == <<vars, retryQ, listReq, postReq, conv, srt, ops, hls>>

InitTrack ==
    /\ QueueIdle
    /\ retryQ = "idle" /\ listReq = "idle" /\ postReq = "idle"
    /\ conv = "idle" /\ srt = "idle" /\ ops = "idle" /\ hls = "idle"
    /\ \E streams \in SeqsUpTo(StreamKinds, MaxStreams),
          quality \in TrackQualities :
         sel = [streams |-> streams, quality |-> quality, stage |-> "probed",
                videoTrack |-> 0, error |-> "", size |-> [w |-> 0, h |-> 0]]

\* getVideoInfos has resolved: converter() picks the reference stream
TrackSelect ==
    /\ sel.stage = "probed"
    /\ sel' = selectTrack(sel)
    /\ UNCHANGED notTrack

\* the video task of the quality starts ffmpeg
TrackEncode ==
    /\ sel.stage = "selected"
    /\ sel' = [sel EXCEPT !.stage = "encoding",
                          !.size = videoSize(sel.quality,
                                             sel.streams[sel.videoTrack])]
    /\ UNCHANGED notTrack

NextTrack ==
    \/ TrackSelect
    \/ TrackEncode

SpecTrack == InitTrack /\ [][NextTrack]_<<vars, sideVars>>

\* the streams that can be the reference: video, not mjpeg
Eligible(streams) ==
    {i \in 1..Len(streams) : /\ streams[i].codec_type = "video"
                             /\ streams[i].codec_name # "mjpeg"}

\* C31: the reference stream is an eligible stream of the greatest height,
\* the first of them in probe order; without an eligible stream the run
\* fails with "no video tracks found", and only then
C31_ReferenceStream ==
    sel.stage # "probed" =>
        LET E == Eligible(sel.streams) IN
          IF E = {}
          THEN sel.stage = "failed" /\ sel.error = "no video tracks found"
          ELSE /\ sel.videoTrack \in E
               /\ sel.error # "no video tracks found"
               /\ \A i \in E :
                    /\ sel.streams[i].height
                           <= sel.streams[sel.videoTrack].height
                    /\ sel.streams[i].height
                           = sel.streams[sel.videoTrack].height
                         => sel.videoTrack <= i

\* two eligible streams of the greatest height, a cover image among the
\* streams, and the first of the two was taken
C31_Witness ==
    /\ sel.stage = "selected"
    /\ \E i, j \in Eligible(sel.streams) :
         i < j /\ sel.streams[i].height = sel.streams[j].height
               /\ sel.videoTrack = i /\ sel.streams[i] # sel.streams[j]

EvenUp(n) == IF n % 2 = 0 THEN n ELSE n + 1

\* a / b rounded to the nearest integer
Rounded(a, b) == (2 * a + b) \div (2 * b)

\* C32: the encode's height is the quality's height made even by adding 1,
\* its width is the height times the source's aspect ratio, rounded and made
\* even by adding 1
C32_EvenByAddingOne ==
    sel.stage = "encoding" =>
        LET track == sel.streams[sel.videoTrack] IN
          /\ sel.size.h = EvenUp(sel.quality)
          /\ sel.size.w \in
               {EvenUp(Rounded(sel.quality * track.width, track.height)),
                EvenUp(Rounded(sel.size.h * track.width, track.height))}

----------------------------------------------------------------------------
\* The track tasks' results and hlsFy (converter.ts 144-205, 404-505, 325-331):
\* every task pushes its track to the array of its kind when it is done, in
\* the order of completion; hlsFy gives each track a folder and builds the
\* packager's arguments from the arrays.

\* an audio stream's tags: language ("und" when there is none) and title
\* ("": no title)
AudioTags(lang, title) == [lang |-> lang, title |-> title]

HlsAudios ==
    {AudioTags("en-US", ""), AudioTags("en-GB", ""), AudioTags("und", ""),
     AudioTags("und", "1 720")}

DefaultAudioLangs == {"en", "pt", "und"}

HlsInputs ==
    [audio : SeqsUpTo(HlsAudios, MaxAudioTracks),
     qualities : SeqsUpTo(QualityHeights, MaxConvQualities) \ {<<>>},
     subtitles : SeqsUpTo({"en"}, MaxConvSubtitles),
     defaultAudioLang : DefaultAudioLangs]

\* slugify(text, {lower: true}) on the texts of HlsAudios
slugify(text) ==
    CASE text = "en-US" -> "en-us"
      [] text = "en-GB" -> "en-gb"
      [] text = "1 720" -> "1-720"
      [] OTHER -> text

\* new Intl.Locale(tag).language
language(tag) ==
    CASE tag \in {"en", "en-US", "en-GB"} -> "en"
      [] OTHER -> tag

\* titleSlug of hlsAudioPaths
titleSlug(a) ==
    LET slug == slugify(IF a.title # "" THEN a.title ELSE a.lang) IN
      IF slug # "" THEN slug ELSE a.lang

\* the body of the three maps: names[k] is the pair of the natural name of
\* element k and the name it gets when a folder of the natural name exists;
\* only the natural name is ever created
RECURSIVE hlsPaths(_, _)
hlsPaths(names, made) ==
    IF names = <<>> THEN [folders |-> <<>>, made |-> made]
    ELSE LET exists == Head(names)[1] \in made
             rest == hlsPaths(Tail(names),
                              IF exists THEN made
                              ELSE made \cup {Head(names)[1]})
         IN [folders |-> <<IF exists THEN Head(names)[2]
                            ELSE Head(names)[1]>> \o rest.folders,
             made |-> rest.made]

\* audios.find without the test for "und"
defaultAudioAnyTag(audios, defaultAudioLang) ==
    LET found == {k \in 1..Len(audios) :
                    language(audios[k].lang) = language(defaultAudioLang)}
    IN IF found = {} THEN ""
       ELSE audios[CHOOSE k \in found : \A j \in found : k <= j].lang

\* defaultAudio?.lang: the first audio whose language is that of
\* defaultAudioLang, "und" never being one ("": undefined)
defaultAudio(audios, defaultAudioLang) ==
    LET found == {k \in 1..Len(audios) :
                    /\ audios[k].lang # "und"
                    /\ language(audios[k].lang) = language(defaultAudioLang)}
    IN IF found = {} THEN ""
       ELSE audios[CHOOSE k \in found : \A j \in found : k <= j].lang

\* hlsFy on the three arrays (each element with the path of its file, here
\* the task it comes from): the folders, the descriptors in the order
\* audio, video, text, and the value of --default_language
hlsFy(audios, videos, subs, defaultAudioLang) ==
    LET a == hlsPaths([k \in 1..Len(audios) |->
                          <<titleSlug(audios[k]),
                            ToString(k - 1) \o "-" \o titleSlug(audios[k])>>],
                      {})
        v == hlsPaths([k \in 1..Len(videos) |->
                          <<ToString(videos[k].height),
                            ToString(k - 1) \o "-"
                                \o ToString(videos[k].height)>>],
                      a.made)
        s == hlsPaths([k \in 1..Len(subs) |->
                          <<"subtitles", "subtitles-" \o ToString(k - 1)>>],
                      v.made)
        desc(stream, list, folders) ==
            [k \in 1..Len(list) |->
               [stream |-> stream, in |-> list[k].path,
                folder |-> folders[k]]]
    IN [args |-> desc("audio", audios, a.folders)
                     \o desc("video", videos, v.folders)
                     \o desc("text", subs, s.folders),
        defaultLang |-> defaultAudio(audios, defaultAudioLang)]

\* the element a task pushes to its array
hlsTrack(in, t) ==
    CASE t[1] = "audio" ->
           [path |-> t, lang |-> in.audio[t[2]].lang,
            title |-> in.audio[t[2]].title]
      [] t[1] = "video" -> [path |-> t, height |-> in.qualities[t[2]]]
      [] t[1] = "subtitle" -> [path |-> t, language |-> in.subtitles[t[2]]]

hlsTasks(in) ==
    {<<"audio", k>> : k \in 1..Len(in.audio)}
        \cup {<<"video", k>> : k \in 1..Len(in.qualities)}
        \cup {<<"subtitle", k>> : k \in 1..Len(in.subtitles)}

\* what converter() returns: the tags of audios and the heights of videos
hlsReturn(audios, videos) ==
    [audioTracks |-> [k \in 1..Len(audios) |->
                        AudioTags(audios[k].lang, audios[k].title)],
     qualities |-> [k \in 1..Len(videos) |-> videos[k].height]]

notHls == <<vars, retryQ, listReq, postReq, conv, srt, ops, sel>>

InitHls ==
    /\ QueueIdle
    /\ retryQ = "idle" /\ listReq = "idle" /\ postReq = "idle"
    /\ conv = "idle" /\ srt = "idle" /\ ops = "idle" /\ sel = "idle"
    /\ \E in \in HlsInputs :
         hls = [in |-> in, running |-> hlsTasks(in), audios |-> <<>>,
                videos |-> <<>>, subtitles |-> <<>>, packaged |-> FALSE,
                out |-> hlsFy(<<>>, <<>>, <<>>, "und"),
                ret |-> hlsReturn(<<>>, <<>>)]

\* a track task is done: its track is pushed
HlsTaskDone ==
    /\ \E t \in hls.running :
         hls' = [hls EXCEPT
                   !.running = @ \ {t},
                   !.audios = IF t[1] = "audio"
                              THEN Append(@, hlsTrack(hls.in, t)) ELSE @,
                   !.videos = IF t[1] = "video"
                              THEN Append(@, hlsTrack(hls.in, t)) ELSE @,
                   !.subtitles = IF t[1] = "subtitle"
                                 THEN Append(@, hlsTrack(hls.in, t)) ELSE @]
    /\ UNCHANGED notHls

\* all tasks are done: hlsFy, and the value converter() returns
HlsPackage ==
    /\ hls.running = {}
    /\ ~hls.packaged
    /\ hls' = [hls EXCEPT
                 !.packaged = TRUE,
                 !.out = hlsFy(hls.audios, hls.videos, hls.subtitles,
                               hls.in.defaultAudioLang),
                 !.ret = hlsReturn(hls.audios, hls.videos)]
    /\ UNCHANGED notHls

NextHls ==
    \/ HlsTaskDone
    \/ HlsPackage

SpecHls == InitHls /\ [][NextHls]_<<vars, sideVars>>

\* C33: the folders hlsFy gives to the tracks of a bundle are pairwise
\* different
C33_FoldersDistinct ==
    hls.packaged =>
        \A i, j \in 1..Len(hls.out.args) :
          i # j => hls.out.args[i].folder # hls.out.args[j].folder

\* the audio streams whose language is that of defaultAudioLang, untagged
\* ones apart
SameLanguage(in) ==
    {k \in 1..Len(in.audio) :
       /\ in.audio[k].lang # "und"
       /\ language(in.audio[k].lang) = language(in.defaultAudioLang)}

\* C34: --default_language is passed exactly when an audio track with a
\* language other than "und" has the primary language of defaultAudioLang,
\* and its value is the full tag of such a track
C34_DefaultLanguage ==
    hls.packaged =>
        IF SameLanguage(hls.in) = {} THEN hls.out.defaultLang = ""
        ELSE \E k \in SameLanguage(hls.in) :
               hls.out.defaultLang = hls.in.audio[k].lang

\* the flag was passed with a regional tag, an untagged track being there
C34_Witness ==
    /\ hls.packaged
    /\ hls.out.defaultLang = "en-GB"
    /\ hls.in.defaultAudioLang = "en"
    /\ \E k \in 1..Len(hls.in.audio) : hls.in.audio[k].lang = "und"

\* the arrays as they are when the tasks are done in the order they were
\* started
InOrder(in, kind, n) == [k \in 1..n |-> hlsTrack(in, <<kind, k>>)]

\* C36: the packager's arguments, the folders, the default language and the
\* lists returned are those of the tasks taken in the order of the request,
\* whatever the order in which they were done
C36_AssemblyDeterministic ==
    hls.packaged =>
        LET audios == InOrder(hls.in, "audio", Len(hls.in.audio))
            videos == InOrder(hls.in, "video", Len(hls.in.qualities))
            subs == InOrder(hls.in, "subtitle", Len(hls.in.subtitles))
        IN /\ hls.out = hlsFy(audios, videos, subs, hls.in.defaultAudioLang)
           /\ hls.ret = hlsReturn(audios, videos)

----------------------------------------------------------------------------
\* The pool under more submissions than it has slots (SpecPool): the queue of
\* one process lifetime, without the watchdog and without a crash, so that
\* several tasks wait at once.  Same state and same operators as Spec.

MaxPoolPushes == 4

PoolTickets == 1..MaxPoolPushes

InitPool ==
    /\ phase = "up"
    /\ env = [ignore |-> TRUE, sentry |-> FALSE]
    /\ db = <<>>
    /\ exec = [t \in PoolTickets |-> NoExec]
    /\ nextT = 0
    /\ waiting = <<>>
    /\ tmpDirs = {}
    /\ outFiles = {}
    /\ flushing = FALSE
    /\ exitCause = NoExit
    /\ obs = [NoObs EXCEPT !.kind = "boot"]
    /\ SideIdle

\* POST /: queue.push, for a new job or for the id of a row
PoolPush ==
    /\ nextT < MaxPoolPushes
    /\ \E p \in Params :
         /\ p.processId <= Len(db)
         /\ Install(push(Cur, p))
         /\ obs' = push(Cur, p).ret
    /\ UNCHANGED <<phase, env, outFiles, flushing, exitCause>>
    /\ UNCHANGED sideVars

\* the exit event of a running task's child, with the result file readable or
\* not: the worker settles, the handler of push() runs, the pool releases the
\* slot
PoolExit ==
    /\ \E t \in PoolTickets, code \in ExitCodes, readable \in BOOLEAN :
         /\ exec[t].st = "running"
         /\ Install(workerSettled(Cur, t, code, readable))
         /\ obs' = [workerSettled(Cur, t, code, readable).ret
                       EXCEPT !.code = code]
    /\ UNCHANGED <<phase, env, outFiles, flushing, exitCause>>
    /\ UNCHANGED sideVars

\* the callback POST of a settled task returned or threw
PoolCallback ==
    /\ \E t \in PoolTickets, ok \in BOOLEAN :
         /\ exec[t].st = "notifying"
         /\ Install(IF ok THEN callbackSent(Cur, t) ELSE callbackError(Cur, t))
         /\ obs' = (IF ok THEN callbackSent(Cur, t) ELSE callbackError(Cur, t)).ret
    /\ UNCHANGED <<phase, env, outFiles, flushing, exitCause>>
    /\ UNCHANGED sideVars

NextPool ==
    \/ PoolPush
    \/ PoolExit
    \/ PoolCallback

SpecPool == InitPool /\ [][NextPool]_vars

\* the worker has been called for the task
Started(e) == e.st \in {"running", "notifying", "finished"}

\* C35: the worker is called for the tasks in the order of their pushes (no
\* task has started while one pushed before it still waits, and the waiting
\* line is in push order), and no task waits while a slot is free
C35_AdmissionInOrder ==
    /\ \A t, u \in PoolTickets :
         t < u /\ Started(exec[u]) => Started(exec[t])
    /\ \A j, k \in 1..Len(waiting) : j < k => waiting[j] < waiting[k]
    /\ \A t \in PoolTickets :
         exec[t].st = "queued" <=> \E k \in 1..Len(waiting) : waiting[k] = t
    /\ waiting # <<>> => Running(exec) = CONCURRENCY

C35_Witness ==
    /\ obs.kind = "exit"
    /\ exec[3].st = "running"
    /\ waiting = <<4>>
    /\ \E t \in {1, 2} : exec[t].st = "running"

====
